---------------------------- MODULE Spec2Model ----------------------------
(***************************************************************************)
(* A model of the scraping pipeline of predicting-global-conflict:         *)
(*   - AsyncPlaywrightBrowser (news_boy.py): the semaphore-throttled       *)
(*     get_page_text over N browser contexts, start() and end() (Spec),    *)
(*     the text extraction of one page (SpecExtract) and                   *)
(*     resolve_final_url (SpecResolve);                                    *)
(*   - GNewsFetcher (gnews_fetcher.py): concurrent _fetch_single tasks     *)
(*     sharing one visited-URL set (SpecFetch);                            *)
(*   - AsyncTextParser (logic_parser.py): configure_parsing and            *)
(*     format_response, and the saving of its facts (SpecParse);           *)
(*   - AsyncKeywordFilter (logic_parser.py): the fuzzy prefilter           *)
(*     (SpecFilter);                                                       *)
(*   - utils.py: clean_text (SpecClean), the repeated-phrase removal       *)
(*     (SpecPhrase) and save_to_csv_flat (SpecTable);                      *)
(*   - main.py: the loop over the countries (SpecMain) and one article     *)
(*     from its scrape to the table (SpecArticle).                         *)
(* Python strings are sequences of one-character strings, so that          *)
(* len(), split(), lower(), "in" and the regular expressions of the code   *)
(* are computed character by character.                                    *)
(***************************************************************************)
EXTENDS Integers, Sequences, FiniteSets, TLC

(***************************************************************************)
(* Bounds of the model.                                                    *)
(***************************************************************************)
\* number of get_page_text calls issued against one browser object
NCalls == 2
\* n_contexts given to the constructor: the contexts start() creates
NContexts == 2
\* max_concurrent_tasks given to the constructor: the semaphore's capacity
MaxConcurrentTasks == 1
\* min_text_length given to the constructor, in characters
MinTextLength == 120
\* number of _fetch_single tasks of one get_bundle_search_parallel
NTasks == 2
\* number of distinct article URLs the searches can return
NUrls == 2
\* the longest search result, in articles
MaxLinks == 2
\* the longest list a model response holds, in elements
MaxEntries == 2

(***************************************************************************)
(* Python string primitives.                                               *)
(***************************************************************************)
UpperCase ==
    <<"A","B","C","D","E","F","G","H","I","J","K","L","M",
      "N","O","P","Q","R","S","T","U","V","W","X","Y","Z">>

LowerCase ==
    <<"a","b","c","d","e","f","g","h","i","j","k","l","m",
      "n","o","p","q","r","s","t","u","v","w","x","y","z">>

Digits == {"0","1","2","3","4","5","6","7","8","9"}

\* the lower-case letter of each upper-case letter
ToLower ==
    [c \in {UpperCase[i] : i \in 1..26} |->
        LowerCase[CHOOSE i \in 1..26 : UpperCase[i] = c]]

\* str.lower() on one character
LowerChar(c) == IF c \in DOMAIN ToLower THEN ToLower[c] ELSE c

\* str.lower()
Lower(s) == [i \in 1..Len(s) |-> LowerChar(s[i])] \o <<>>

\* the characters str.split() and str.strip() treat as whitespace
IsSpace(c) == c \in {" ", "\n", "\t", "\r"}

\* "sub in s": sub occurs in s as a contiguous run
Contains(s, sub) ==
    \E i \in 1..(Len(s) - Len(sub) + 1) :
        \A j \in 1..Len(sub) : s[i + j - 1] = sub[j]

\* str.strip()
Strip(s) ==
    IF \A i \in 1..Len(s) : IsSpace(s[i]) THEN <<>>
    ELSE LET lo == CHOOSE i \in 1..Len(s) :
                       ~IsSpace(s[i]) /\ \A j \in 1..(i - 1) : IsSpace(s[j])
             hi == CHOOSE i \in 1..Len(s) :
                       ~IsSpace(s[i]) /\ \A j \in (i + 1)..Len(s) : IsSpace(s[j])
         IN  SubSeq(s, lo, hi)

\* the positions of s, in order
Positions(s) == [i \in 1..Len(s) |-> i] \o <<>>

\* where the maximal runs of non-whitespace characters start, in order
TokenStarts(s) ==
    SelectSeq(Positions(s),
              LAMBDA i : ~IsSpace(s[i]) /\ (i = 1 \/ IsSpace(s[i - 1])))

\* and where they end
TokenEnds(s) ==
    SelectSeq(Positions(s),
              LAMBDA i : ~IsSpace(s[i]) /\ (i = Len(s) \/ IsSpace(s[i + 1])))

\* str.split(): the maximal runs of non-whitespace characters, in order
Split(s) ==
    LET starts == TokenStarts(s)
        ends == TokenEnds(s)
    IN  [k \in 1..Len(starts) |-> SubSeq(s, starts[k], ends[k])] \o <<>>

\* sep.join(parts[lo..hi])
RECURSIVE JoinRange(_, _, _, _)
JoinRange(parts, sep, lo, hi) ==
    IF lo > hi THEN <<>>
    ELSE IF lo = hi THEN parts[lo]
    ELSE LET mid == (lo + hi) \div 2
         IN  JoinRange(parts, sep, lo, mid) \o sep \o JoinRange(parts, sep, mid + 1, hi)

\* sep.join(parts)
Join(sep, parts) == JoinRange(parts, sep, 1, Len(parts))

\* s repeated n times: s * n
RECURSIVE Rep(_, _)
Rep(s, n) ==
    IF n <= 0 THEN <<>>
    ELSE IF n = 1 THEN s
    ELSE Rep(s, n \div 2) \o Rep(s, n - (n \div 2))

(***************************************************************************)
(* Python values returned by the modelled functions: None, a string, or a  *)
(* raised exception.                                                       *)
(***************************************************************************)
PyNone == [kind |-> "none", text |-> <<>>]

PyStr(s) == [kind |-> "text", text |-> s]

\* a call that has not ended
Pending == [kind |-> "pending", text |-> <<>>]

\* the call was cancelled by the wait_for around it
Cancelled == [kind |-> "CancelledError", text |-> <<>>]

\* page.url of a page that has not navigated
AboutBlank == <<"a","b","o","u","t",":","b","l","a","n","k">>

(***************************************************************************)
(* Page text extraction: get_page_text, lines 112-175.                     *)
(* A page is the sequence of its DOM nodes in document order.  A node is   *)
(*   hits : how many of the content_selectors match it (0, 1 or 2),        *)
(*   soup : whether its tag is one of p, article, main, section, div,      *)
(*   box  : whether bounding_box() is non-empty (the node is visible),     *)
(*   text : its text.                                                      *)
(***************************************************************************)
\* the default skip_words of the constructor
Blocked == <<"b","l","o","c","k","e","d">>

Captcha == <<"c","a","p","t","c","h","a">>

Consent == <<"c","o","n","s","e","n","t">>

DefaultSkipWords == <<Blocked, Captcha, Consent>>

\* len(t) < 50 rejects an element
MinElementLen == 50

\* len(t) > 100 accepts a raw-markup candidate
MinCandidateLen == 100

\* the elements list: one query_selector_all per selector, results appended
\* in selector order, so a node matched by two selectors is listed twice
Elements(page) ==
    SelectSeq(page, LAMBDA n : n.hits >= 1) \o SelectSeq(page, LAMBDA n : n.hits >= 2)

\* (await el.inner_text() or "").strip()
InnerText(n) == Strip(n.text)

\* the four tests an element passes to become a text block (lines 137-147)
KeepElement(n, skip_words) ==
    LET t == InnerText(n)
        lowered == Lower(t)
    IN  /\ n.box
        /\ t # <<>>
        /\ ~(Len(t) < MinElementLen)
        /\ ~(4 * Len(Split(t)) < Len(t))
        /\ ~(\E k \in 1..Len(skip_words) : Contains(lowered, skip_words[k]))

\* text_blocks after the loop over elements
RECURSIVE SelectorBlocksFrom(_, _, _, _)
SelectorBlocksFrom(els, skip_words, i, acc) ==
    IF i > Len(els) THEN acc
    ELSE SelectorBlocksFrom(els, skip_words, i + 1,
            IF KeepElement(els[i], skip_words)
            THEN Append(acc, InnerText(els[i])) ELSE acc)

SelectorBlocks(page, skip_words) ==
    SelectorBlocksFrom(Elements(page), skip_words, 1, <<>>)

\* the characters matched by \w
WordChars ==
    {UpperCase[i] : i \in 1..26} \cup {LowerCase[i] : i \in 1..26}
        \cup Digits \cup {"_"}

IsWordChar(c) == c \in WordChars

\* re.search(r"\b" + phrase + r"\b", s), for a phrase that starts and ends
\* with a word character
SearchWord(s, phrase) ==
    \E i \in 1..(Len(s) - Len(phrase) + 1) :
        /\ \A j \in 1..Len(phrase) : s[i + j - 1] = phrase[j]
        /\ (i = 1 \/ ~IsWordChar(s[i - 1]))
        /\ (i + Len(phrase) > Len(s) \/ ~IsWordChar(s[i + Len(phrase)]))

BoilerplatePhrases ==
    << <<"s","u","b","s","c","r","i","b","e">>,
       <<"c","o","o","k","i","e">>,
       <<"s","i","g","n"," ","i","n">>,
       <<"f","o","l","l","o","w"," ","u","s">> >>

\* re.search(r"\b(subscribe|cookie|sign in|follow us)\b", t.lower())
IsBoilerplate(t) ==
    LET lowered == Lower(t)
    IN  \E k \in 1..Len(BoilerplatePhrases) : SearchWord(lowered, BoilerplatePhrases[k])

\* c.get_text(" ", strip=True) of a node holding one text node
GetText(n) == Strip(n.text)

\* the raw-markup fallback (lines 152-164): soup.find_all in document order
RECURSIVE FallbackBlocksFrom(_, _, _)
FallbackBlocksFrom(page, i, acc) ==
    IF i > Len(page) THEN acc
    ELSE FallbackBlocksFrom(page, i + 1,
            IF /\ page[i].soup
               /\ Len(GetText(page[i])) > MinCandidateLen
               /\ ~IsBoilerplate(GetText(page[i]))
            THEN Append(acc, GetText(page[i])) ELSE acc)

FallbackBlocks(page) == FallbackBlocksFrom(page, 1, <<>>)

\* text_blocks when the join is reached: the fallback runs only if the
\* selector path kept nothing
TextBlocks(page, skip_words) ==
    LET text_blocks == SelectorBlocks(page, skip_words)
    IN  IF text_blocks # <<>> THEN text_blocks ELSE FallbackBlocks(page)

\* page_text = "\n".join(text_blocks); page_text = " ".join(page_text.split())
PageText(page, skip_words) ==
    Join(<<" ">>, Split(Join(<<"\n">>, TextBlocks(page, skip_words))))

\* lines 171-175: with the raw join compared instead of the collapsed text
LengthGateRaw(page, skip_words, min_text_length) ==
    LET page_text == PageText(page, skip_words)
    IN  IF Len(Join(<<"\n">>, TextBlocks(page, skip_words))) < min_text_length
        THEN PyNone
        ELSE PyStr(page_text)

\* lines 171-175: None when the collapsed text is shorter than min_text_length
LengthGate(page, skip_words, min_text_length) ==
    LET page_text == PageText(page, skip_words)
    IN  IF Len(page_text) < min_text_length THEN PyNone ELSE PyStr(page_text)

\* what get_page_text returns for a page that loaded and stayed open
ExtractPageText(page, skip_words, min_text_length) ==
    LengthGate(page, skip_words, min_text_length)

(***************************************************************************)
(* The texts and nodes the pages of the model are made of.                 *)
(***************************************************************************)
\* 50 characters, 17 words: passes the element tests
TShortDense == Strip(Rep(<<"a","n"," ">>, 17))

\* 122 characters, 41 words: passes the element tests
TLongDense == Strip(Rep(<<"a","n"," ">>, 41))

\* 122 characters before whitespace is collapsed, 92 after
TGappy == Strip(Rep(<<"a","n"," "," ">>, 31))

\* 107 characters of ordinary prose: too few words per character for the
\* element tests, long enough for the raw-markup fallback
TProse == Strip(Rep(<<"f","l","o","o","d","s"," ","d","i","s","p","l","a","c","e","d"," ",
                      "t","h","o","u","s","a","n","d","s"," ">>, 4))

\* 134 characters of ordinary prose
TLongProse == Strip(Rep(<<"f","l","o","o","d","s"," ","d","i","s","p","l","a","c","e","d"," ",
                          "t","h","o","u","s","a","n","d","s"," ">>, 5))

\* a captcha page: a configured skip-word, then 40 short words
TCaptcha == Captcha \o <<" ">> \o TLongDense

\* a captcha page in ordinary prose
TCaptchaProse == Captcha \o <<" ">> \o TLongProse

\* a cookie banner in ordinary prose
TCookie == <<"c","o","o","k","i","e"," ">> \o TLongProse

Texts == {<<>>, TShortDense, TLongDense, TGappy, TProse, TLongProse,
          TCaptcha, TCaptchaProse, TCookie}

Node(h, s, b, t) == [hits |-> h, soup |-> s, box |-> b, text |-> t]

\* a node a content selector matches has one of the tags the fallback reads
Nodes ==
    {Node(1, TRUE, TRUE, t) : t \in Texts}
    \cup {Node(2, TRUE, TRUE, TShortDense), Node(1, TRUE, FALSE, TLongDense),
          Node(0, TRUE, FALSE, TLongProse), Node(0, FALSE, TRUE, TLongDense)}

\* the longest page drawn, in nodes
MaxNodes == 2

RECURSIVE PagesOfLen(_)
PagesOfLen(n) ==
    IF n = 0 THEN {<<>>}
    ELSE {Append(p, x) : p \in PagesOfLen(n - 1), x \in Nodes}

Pages == UNION {PagesOfLen(n) : n \in 0..MaxNodes}

\* a blocked page: it has text, and every text of it holds a skip-word
PageBlocked(page, skip_words) ==
    /\ \E i \in 1..Len(page) : page[i].text # <<>>
    /\ \A i \in 1..Len(page) :
          page[i].text # <<>> =>
             \E k \in 1..Len(skip_words) : Contains(Lower(page[i].text), skip_words[k])

\* the pages the browser model serves
PoolPages ==
    { <<>>,
      <<Node(1, TRUE, TRUE, TShortDense)>>,
      <<Node(1, TRUE, TRUE, TLongDense)>>,
      <<Node(1, TRUE, TRUE, TLongProse)>>,
      <<Node(1, TRUE, TRUE, TCaptcha)>> }

(***************************************************************************)
(* Model responses.  A response is a text together with the document the   *)
(* text denotes: json.loads / ast.literal_eval succeed exactly when the     *)
(* text they are given is a serialisation of that document, and then yield  *)
(* it.  A document value is tagged: null, num, str, list, dict, or missing  *)
(* for a key the dict does not have; "invalid" for a text that is no       *)
(* document.                                                               *)
(***************************************************************************)
JNull == [t |-> "null", s |-> <<>>, items |-> <<>>]

JNum(digits) == [t |-> "num", s |-> digits, items |-> <<>>]

JStr(chars) == [t |-> "str", s |-> chars, items |-> <<>>]

JList(items) == [t |-> "list", s |-> <<>>, items |-> items]

JMissing == [t |-> "missing", s |-> <<>>, items |-> <<>>]

JInvalid == [t |-> "invalid", s |-> <<>>, items |-> <<>>]

JDict(country, metric, dates) ==
    [t |-> "dict", country |-> country, metric |-> metric, dates |-> dates]

\* what format_response returns: None, a list of facts, or a raised exception
NoFacts == [kind |-> "none", facts |-> <<>>]

\* format_response("") before any response was given
NoResponse == [isstr |-> TRUE, text |-> <<>>, doc |-> JInvalid]

Tasks == 1..NTasks

\* get_bundle_search_parallel has not ended
NoBundle == [kind |-> "pending", articles |-> <<>>]

(***************************************************************************)
(* State.                                                                  *)
(***************************************************************************)
VARIABLES
    \* AsyncPlaywrightBrowser
    bstate,     \* "new", "started", "ending" (inside end()), "ended"
    contexts,   \* len(self.contexts)
    nclosed,    \* how many of the contexts end() has closed so far
    sem,        \* the value of self.semaphore: the free slots
    \* one get_page_text call per id
    cpc,        \* where the call is
    carg,       \* its context_id argument, once read
    cpage,      \* its page: "none", "open" or "closed"
    purl,       \* page.url: "blank" until a navigation commits, then "loaded"
    cres,       \* "pending" until the call ends, then "none", "text", or the
                \* exception it raised
    clate,      \* more than max_task_time has passed since line 102
    cevent,     \* how the call failed: "timeout" (lines 177-180), "blocked" page
    endSeen,    \* the calls in flight or waiting when end() was called
    \* GNewsFetcher
    visited_urls,   \* self.visited_urls, the set shared with main.py
    fpc,            \* where each _fetch_single task is
    search_result,  \* what gnews.get_news returned to the task
    fresults,       \* the articles (by url) the task returns
    bundle,         \* what get_bundle_search_parallel made of the tasks
    \* AsyncTextParser
    configured,      \* configure_parsing has run
    allowed_metrics, \* self.allowed_metrics
    response,        \* the model response last given to format_response
    parsed,          \* what format_response made of it
    metric_data,     \* the metric titles of the configuration, as spelled
    csv_saved,       \* whether save_to_csv_flat has written the facts
    csv_table,       \* the cells of the table it wrote that hold 1
    \* get_page_text on one page, lines 112-175
    xskip,      \* self.skip_words of the browser
    xpage,      \* the page served
    xblocks,    \* text_blocks when line 167 joins them
    xpath,      \* which path filled text_blocks: "selector" or "fallback"
    xout,       \* what get_page_text returned for it
    \* resolve_final_url, one call
    rpc,          \* where the call is
    rcaller,      \* who awaits it: get_page_text under wait_for, or a direct await
    rurl,         \* its url argument
    rpage_url,    \* page.url
    rnav,         \* how far the navigation to url got: "none", "dom", "idle"
    rfail,        \* how the navigation failed: "none", "error", "timeout"
    rret,         \* what the call returned
    \* AsyncKeywordFilter
    ktext,        \* the text given to _preprocess_sync
    metric_mapping, \* self.metric_mapping, in insertion order
    min_score,    \* self.min_score
    kpc,          \* "idle", "filtered" after the first call, "grown" after a keyword was added
    kadded,       \* the keyword added last
    kprev,        \* what _preprocess_sync returned before the keyword was added
    kres,         \* what _preprocess_sync returned last
    \* clean_text
    ctext,        \* the text given to clean_text
    cpass,        \* how many times clean_text has been applied to it: 0, 1 or 2
    conce,        \* clean_text(text)
    ctwice,       \* clean_text(clean_text(text))
    \* remove_repeated_phrase_from_text
    ppc,          \* "idle", "called", "done"
    ptext,        \* its text argument
    pmin,         \* min_words_in_phrase
    pcheck,       \* max_words_to_check
    repeated_phrase, \* the phrase the search loop found, empty for None
    pout,         \* the text returned
    \* main.py: the configuration, then the loop over the countries
    task_list,    \* config "task list", once read
    save_points,  \* config "save points", once read
    prompts,      \* the templates prompts.json holds, once read
    network,      \* a search, a browser start or a model call was issued
    mpc,          \* the step the run is at
    mcountry,     \* which country of country_data the loop is at, from 1
    google_news_articles, \* the articles found for the country, by number
    has_text,     \* those whose page gives a text of min_text_length or more
    passes,       \* those whose full text the prefilter accepts
    accessed_articles, \* those with a full text
    filtered_articles, \* those the prefilter kept
    parsed_articles, \* preprocessed_and_parsed_articles: those with a fact
    reported,     \* the facts saved for each country done, in order
    merror,       \* the exception that ended the run
    \* one article, from its scrape to the table
    apc,          \* the step the article is past
    scraped,      \* what get_page_text returned for it
    amin,         \* min_text_length
    full_text,    \* article["full_text"]
    aresponse,    \* the model response for it
    flattened_data, \* the facts flattened for saving
    atable,       \* the cells of the saved table that hold 1
    \* save_to_csv_flat on a list of facts and on the same facts reordered
    tpc,          \* "idle", "saved" after the first call, "resaved" after the second
    tdata,        \* the facts of the first call
    tshuffled,    \* the same facts in another order
    table,        \* the cells that hold 1 after the first call
    shuffled_table \* and after the second

poolVars == <<bstate, contexts, nclosed, sem, cpc, carg, cpage, purl, cres,
              clate, cevent, endSeen>>

fetchVars == <<visited_urls, fpc, search_result, fresults, bundle>>

parseVars ==
    <<configured, allowed_metrics, response, parsed, metric_data, csv_saved, csv_table>>

extractVars == <<xskip, xpage, xblocks, xpath, xout>>

resolveVars == <<rpc, rcaller, rurl, rpage_url, rnav, rfail, rret>>

filterVars == <<ktext, metric_mapping, min_score, kpc, kadded, kprev, kres>>

cleanVars == <<ctext, cpass, conce, ctwice>>

phraseVars == <<ppc, ptext, pmin, pcheck, repeated_phrase, pout>>

mainVars == <<task_list, save_points, prompts, network, mpc, mcountry,
              google_news_articles, has_text, passes, accessed_articles,
              filtered_articles, parsed_articles, reported, merror>>

articleVars == <<apc, scraped, amin, full_text, aresponse, flattened_data,
                 atable>>

tableVars == <<tpc, tdata, tshuffled, table, shuffled_table>>

\* what the actions of each component leave alone
othersOfPool ==
    <<fetchVars, parseVars, extractVars, resolveVars, filterVars, cleanVars,
      phraseVars, mainVars, articleVars, tableVars>>

othersOfFetch ==
    <<poolVars, parseVars, extractVars, resolveVars, filterVars, cleanVars,
      phraseVars, mainVars, articleVars, tableVars>>

othersOfParse ==
    <<poolVars, fetchVars, extractVars, resolveVars, filterVars, cleanVars,
      phraseVars, mainVars, articleVars, tableVars>>

othersOfExtract ==
    <<poolVars, fetchVars, parseVars, resolveVars, filterVars, cleanVars,
      phraseVars, mainVars, articleVars, tableVars>>

othersOfResolve ==
    <<poolVars, fetchVars, parseVars, extractVars, filterVars, cleanVars,
      phraseVars, mainVars, articleVars, tableVars>>

othersOfFilter ==
    <<poolVars, fetchVars, parseVars, extractVars, resolveVars, cleanVars,
      phraseVars, mainVars, articleVars, tableVars>>

othersOfClean ==
    <<poolVars, fetchVars, parseVars, extractVars, resolveVars, filterVars,
      phraseVars, mainVars, articleVars, tableVars>>

othersOfPhrase ==
    <<poolVars, fetchVars, parseVars, extractVars, resolveVars, filterVars,
      cleanVars, mainVars, articleVars, tableVars>>

othersOfMain ==
    <<poolVars, fetchVars, parseVars, extractVars, resolveVars, filterVars,
      cleanVars, phraseVars, articleVars, tableVars>>

othersOfArticle ==
    <<poolVars, fetchVars, parseVars, extractVars, resolveVars, filterVars,
      cleanVars, phraseVars, mainVars, tableVars>>

othersOfTable ==
    <<poolVars, fetchVars, parseVars, extractVars, resolveVars, filterVars,
      cleanVars, phraseVars, mainVars, articleVars>>

vars == <<poolVars, fetchVars, parseVars, extractVars, resolveVars, filterVars, cleanVars, phraseVars, mainVars, articleVars, tableVars>>

Calls == 1..NCalls

\* the urls tried: "", one without "google" in it, one with
UrlKinds == {"empty", "plain", "google"}

\* the context_id values tried: below, inside and above the valid range
CtxArgs == (0 - 1)..NContexts

\* context_id before the call has read it, and after the call has ended
NoArg == 0

\* what get_page_text makes of each page served: the kind of value returned
\* and whether the page was a blocked one
Outcome(page) ==
    [kind |-> ExtractPageText(page, DefaultSkipWords, MinTextLength).kind,
     blocked |-> PageBlocked(page, DefaultSkipWords)]

PoolOutcomes == {Outcome(p) : p \in PoolPages}

\* a page that was never navigated is blank
BlankOutcome == Outcome(<<>>)

(***************************************************************************)
(* AsyncPlaywrightBrowser: start(), get_page_text(), end().                *)
(* One action per stretch of code between two awaits.  An argument is      *)
(* drawn where the code first reads it, and a call's arguments, page.url   *)
(* and clock are forgotten when the call ends.                             *)
(***************************************************************************)
\* the state after AsyncPlaywrightBrowser(...): no context, every slot free
Init ==
    /\ bstate = "new"
    /\ contexts = 0
    /\ nclosed = 0
    /\ sem = MaxConcurrentTasks
    /\ cpc = [c \in Calls |-> "idle"]
    /\ carg = [c \in Calls |-> NoArg]
    /\ cpage = [c \in Calls |-> "none"]
    /\ purl = [c \in Calls |-> "blank"]
    /\ cres = [c \in Calls |-> "pending"]
    /\ clate = [c \in Calls |-> FALSE]
    /\ cevent = [c \in Calls |-> "none"]
    /\ endSeen = {}
    /\ visited_urls = {}
    /\ fpc = [t \in Tasks |-> "idle"]
    /\ search_result = [t \in Tasks |-> <<>>]
    /\ fresults = [t \in Tasks |-> <<>>]
    /\ bundle = NoBundle
    /\ configured = FALSE
    /\ allowed_metrics = <<>>
    /\ response = NoResponse
    /\ parsed = NoFacts
    /\ metric_data = <<>>
    /\ csv_saved = FALSE
    /\ csv_table = {}
    /\ xskip = <<>>
    /\ xpage = <<>>
    /\ xblocks = <<>>
    /\ xpath = "none"
    /\ xout = PyNone
    /\ rpc = "idle"
    /\ rcaller = "none"
    /\ rurl = <<>>
    /\ rpage_url = AboutBlank
    /\ rnav = "none"
    /\ rfail = "none"
    /\ rret = Pending
    /\ ktext = <<>>
    /\ metric_mapping = <<>>
    /\ min_score = 0
    /\ kpc = "idle"
    /\ kadded = <<>>
    /\ kprev = FALSE
    /\ kres = FALSE
    /\ ctext = <<>>
    /\ cpass = 0
    /\ conce = <<>>
    /\ ctwice = <<>>
    /\ ppc = "idle"
    /\ ptext = <<>>
    /\ pmin = 0
    /\ pcheck = 0
    /\ repeated_phrase = <<>>
    /\ pout = <<>>
    /\ task_list = <<>>
    /\ save_points = <<>>
    /\ prompts = {}
    /\ network = FALSE
    /\ mpc = "startup"
    /\ mcountry = 1
    /\ google_news_articles = <<>>
    /\ has_text = {}
    /\ passes = {}
    /\ accessed_articles = <<>>
    /\ filtered_articles = <<>>
    /\ parsed_articles = <<>>
    /\ reported = <<>>
    /\ merror = "none"
    /\ apc = "idle"
    /\ scraped = PyNone
    /\ amin = 0
    /\ full_text = <<>>
    /\ aresponse = NoResponse
    /\ flattened_data = <<>>
    /\ atable = {}
    /\ tpc = "idle"
    /\ tdata = <<>>
    /\ tshuffled = <<>>
    /\ table = {}
    /\ shuffled_table = {}

\* start(): launches the browser and binds self.contexts to n_contexts contexts
Start ==
    /\ bstate = "new"
    /\ bstate' = "started"
    /\ contexts' = NContexts
    /\ UNCHANGED <<nclosed, sem, cpc, carg, cpage, purl, cres, clate, cevent,
                   endSeen>>
    /\ UNCHANGED othersOfPool

\* a caller invokes get_page_text(url, context_id) and reaches the semaphore;
\* the calls are numbered in the order they are made
Call(c) ==
    /\ cpc[c] = "idle"
    /\ \A d \in Calls : d < c => cpc[d] # "idle"
    /\ cpc' = [cpc EXCEPT ![c] = "waiting"]
    /\ UNCHANGED <<bstate, contexts, nclosed, sem, carg, cpage, purl, cres,
                   clate, cevent, endSeen>>
    /\ UNCHANGED othersOfPool

\* a semaphore that never makes a caller wait
CanAcquireAlways(s) == TRUE

\* asyncio.Semaphore: acquire() returns only while the value is positive
CanAcquire(s) == s > 0

SemAcquired(s) == s - 1

\* an exit that keeps the slot
SemKept(s) == s

\* leaving "async with self.semaphore" gives the slot back
SemReleased(s) == s + 1

\* the context at this index was closed by end()
CtxClosed(k) == k < nclosed

\* the call's page and context still answer
PageAlive(c) == ~CtxClosed(carg[c])

\* the positions inside "async with self.semaphore"
InsidePcs == {"newpage", "goto", "netidle", "rsswait", "extract"}

\* the positions inside the wait_for around resolve_final_url
ResolvePcs == {"goto", "netidle", "rsswait"}

\* an index check that lets len(self.contexts) through
BadContextIdLax(ctx) == ctx < 0 \/ ctx > contexts

\* line 94: context_id is no index of self.contexts
BadContextId(ctx) == ctx < 0 \/ ctx >= contexts

\* lines 93-98: take a slot, check context_id, ask the context for a page
Acquire(c, ctx) ==
    /\ cpc[c] = "waiting"
    /\ CanAcquire(sem)
    /\ carg' = [carg EXCEPT ![c] = ctx]
    /\ IF BadContextId(ctx)
       THEN /\ sem' = SemReleased(SemAcquired(sem))
            /\ cres' = [cres EXCEPT ![c] = "ValueError"]
            /\ cpc' = [cpc EXCEPT ![c] = "done"]
       ELSE /\ sem' = SemAcquired(sem)
            /\ cpc' = [cpc EXCEPT ![c] = "newpage"]
            /\ UNCHANGED cres
    /\ UNCHANGED <<bstate, contexts, nclosed, cpage, purl, clate, cevent, endSeen>>
    /\ UNCHANGED othersOfPool

\* lines 98-105: ctx.new_page() answers; resolve_final_url starts under wait_for.
\* new_page() is outside the try: on a closed context its error leaves the call.
\* resolve_final_url returns the url at once when it is empty or has no "google".
NewPage(c, url) ==
    /\ cpc[c] = "newpage"
    /\ IF CtxClosed(carg[c])
       THEN /\ sem' = SemReleased(sem)
            /\ cres' = [cres EXCEPT ![c] = "Error"]
            /\ cpc' = [cpc EXCEPT ![c] = "done"]
            /\ carg' = [carg EXCEPT ![c] = NoArg]
            /\ UNCHANGED cpage
       ELSE /\ cpage' = [cpage EXCEPT ![c] = "open"]
            /\ carg' = carg
            /\ cpc' = [cpc EXCEPT ![c] =
                         IF url \in {"empty", "plain"} THEN "extract" ELSE "goto"]
            /\ UNCHANGED <<sem, cres>>
    /\ UNCHANGED <<bstate, contexts, nclosed, purl, clate, cevent, endSeen>>
    /\ UNCHANGED othersOfPool

\* the call ends inside the try: page.close(), the return, the slot given back
Finish(c, result) ==
    /\ cpage' = [cpage EXCEPT ![c] = "closed"]
    /\ cres' = [cres EXCEPT ![c] = result]
    /\ cpc' = [cpc EXCEPT ![c] = "done"]
    /\ sem' = SemReleased(sem)
    /\ carg' = [carg EXCEPT ![c] = NoArg]
    /\ purl' = [purl EXCEPT ![c] = "blank"]
    /\ clate' = [clate EXCEPT ![c] = FALSE]

\* line 73: page.goto() reaches domcontentloaded
GotoOk(c) ==
    /\ cpc[c] = "goto"
    /\ PageAlive(c)
    /\ purl' = [purl EXCEPT ![c] = "loaded"]
    /\ cpc' = [cpc EXCEPT ![c] = "netidle"]
    /\ UNCHANGED <<bstate, contexts, nclosed, sem, carg, cpage, cres, clate,
                   cevent, endSeen>>
    /\ UNCHANGED othersOfPool

\* lines 73, 87-89: page.goto() raises, before or after the navigation has
\* committed; resolve_final_url returns the url
GotoFail(c, committed) ==
    /\ cpc[c] = "goto"
    /\ committed => PageAlive(c)
    /\ purl' = [purl EXCEPT ![c] = IF committed THEN "loaded" ELSE "blank"]
    /\ cpc' = [cpc EXCEPT ![c] = "extract"]
    /\ UNCHANGED <<bstate, contexts, nclosed, sem, carg, cpage, cres,
                   clate, cevent, endSeen>>
    /\ UNCHANGED othersOfPool

\* line 74: the page reaches networkidle; lines 76-83: when page.url is still
\* an RSS article link resolve_final_url waits for the redirect, else it
\* returns page.url
NetidleOk(c, rss) ==
    /\ cpc[c] = "netidle"
    /\ PageAlive(c)
    /\ cpc' = [cpc EXCEPT ![c] = IF rss THEN "rsswait" ELSE "extract"]
    /\ UNCHANGED <<bstate, contexts, nclosed, sem, carg, cpage, purl, cres,
                   clate, cevent, endSeen>>
    /\ UNCHANGED othersOfPool

\* lines 74, 87-89: wait_for_load_state raises; resolve_final_url returns the url
NetidleFail(c) ==
    /\ cpc[c] = "netidle"
    /\ cpc' = [cpc EXCEPT ![c] = "extract"]
    /\ UNCHANGED <<bstate, contexts, nclosed, sem, carg, cpage, purl, cres,
                   clate, cevent, endSeen>>
    /\ UNCHANGED othersOfPool

\* lines 79-83: wait_for_url returns, or its own timeout is caught (page.url
\* is returned), or it raises another error (lines 87-89: the url is returned)
RssDone(c) ==
    /\ cpc[c] = "rsswait"
    /\ cpc' = [cpc EXCEPT ![c] = "extract"]
    /\ UNCHANGED <<bstate, contexts, nclosed, sem, carg, cpage, purl, cres,
                   clate, cevent, endSeen>>
    /\ UNCHANGED othersOfPool

\* a timeout handler that returns None without page.close()
OuterTimeoutLeak(c) ==
    /\ cpc[c] \in ResolvePcs
    /\ cres' = [cres EXCEPT ![c] = "none"]
    /\ cpc' = [cpc EXCEPT ![c] = "done"]
    /\ sem' = SemReleased(sem)
    /\ carg' = [carg EXCEPT ![c] = NoArg]
    /\ purl' = [purl EXCEPT ![c] = "blank"]
    /\ clate' = [clate EXCEPT ![c] = FALSE]
    /\ cevent' = [cevent EXCEPT ![c] = "timeout"]
    /\ UNCHANGED <<bstate, contexts, nclosed, cpage, endSeen>>
    /\ UNCHANGED othersOfPool

\* lines 102-105, 177-180: max_task_time after line 102 the wait_for around
\* resolve_final_url expires; the page is closed and None returned.  The wait_for calls inside
\* resolve_final_url have the same timeout and start later, so this one
\* expires first and cancels them: lines 84-86 are not reached from here.
OuterTimeout(c) ==
    /\ cpc[c] \in ResolvePcs
    /\ Finish(c, "none")
    /\ cevent' = [cevent EXCEPT ![c] = "timeout"]
    /\ UNCHANGED <<bstate, contexts, nclosed, endSeen>>
    /\ UNCHANGED othersOfPool

\* lines 106-110, 181-184: wait_for_load_state raises (its own timeout, or
\* the context was closed); or, with the context closed, lines 112-154 end
\* in page.content() raising.  The page is closed and None returned.
ExtractFail(c) ==
    /\ cpc[c] = "extract"
    /\ Finish(c, "none")
    /\ UNCHANGED <<bstate, contexts, nclosed, cevent, endSeen>>
    /\ UNCHANGED othersOfPool

\* lines 106-175: the page settles, its text is extracted, the page is closed
\* and the text, or None when it is too short, returned.  A page that was
\* never navigated is blank.
Extract(c, o) ==
    /\ cpc[c] = "extract"
    /\ PageAlive(c)
    /\ purl[c] = "blank" => o = BlankOutcome
    /\ Finish(c, o.kind)
    /\ cevent' = [cevent EXCEPT ![c] = IF o.blocked THEN "blocked" ELSE cevent[c]]
    /\ UNCHANGED <<bstate, contexts, nclosed, endSeen>>
    /\ UNCHANGED othersOfPool

\* lines 106-175 run outside the wait_for of line 102: the time since that
\* wait_for started passes max_task_time while the call is still extracting
Overrun(c) ==
    /\ cpc[c] = "extract"
    /\ ~clate[c]
    /\ clate' = [clate EXCEPT ![c] = TRUE]
    /\ UNCHANGED <<bstate, contexts, nclosed, sem, cpc, carg, cpage, purl, cres,
                   cevent, endSeen>>
    /\ UNCHANGED othersOfPool

\* end(), lines 58-62: the next context is closed, and its pages with it
EndCloseContext ==
    /\ bstate \in {"started", "ending"}
    /\ nclosed < contexts
    /\ bstate' = "ending"
    /\ nclosed' = nclosed + 1
    /\ cpage' = [c \in Calls |->
                   IF cpage[c] = "open" /\ carg[c] = nclosed
                   THEN "closed" ELSE cpage[c]]
    /\ endSeen' = IF bstate = "started"
                  THEN {c \in Calls : cpc[c] \notin {"idle", "done"}}
                  ELSE endSeen
    /\ UNCHANGED <<contexts, sem, cpc, carg, purl, cres, clate, cevent>>
    /\ UNCHANGED othersOfPool

\* end(), lines 63-66: the browser is closed and playwright stopped
EndCloseBrowser ==
    /\ bstate = "ending"
    /\ nclosed = contexts
    /\ bstate' = "ended"
    /\ UNCHANGED <<contexts, nclosed, sem, cpc, carg, cpage, purl, cres, clate,
                   cevent, endSeen>>
    /\ UNCHANGED othersOfPool

Next ==
    \/ Start
    \/ \E c \in Calls : Call(c)
    \/ \E c \in Calls, k \in CtxArgs : Acquire(c, k)
    \/ \E c \in Calls, u \in UrlKinds : NewPage(c, u)
    \/ \E c \in Calls : GotoOk(c)
    \/ \E c \in Calls, m \in BOOLEAN : GotoFail(c, m)
    \/ \E c \in Calls, r \in BOOLEAN : NetidleOk(c, r)
    \/ \E c \in Calls : NetidleFail(c)
    \/ \E c \in Calls : RssDone(c)
    \/ \E c \in Calls : OuterTimeout(c)
    \/ \E c \in Calls : ExtractFail(c)
    \/ \E c \in Calls, o \in PoolOutcomes : Extract(c, o)
    \/ \E c \in Calls : Overrun(c)
    \/ EndCloseContext
    \/ EndCloseBrowser

Spec == Init /\ [][Next]_vars

(***************************************************************************)
(* Properties of the browser pool.                                         *)
(***************************************************************************)
\* the calls inside "async with self.semaphore"
Inside == {c \in Calls : cpc[c] \in InsidePcs}

OpenPages == {c \in Calls : cpage[c] = "open"}

Done(c) == cpc[c] = "done"

\* C1: at most max_concurrent_tasks calls hold a slot, so at most that many
\* pages are open at once; the semaphore never goes below zero, so a caller
\* that finds no free slot is still waiting.
C1_SlotBound ==
    /\ Cardinality(Inside) <= MaxConcurrentTasks
    /\ Cardinality(OpenPages) <= MaxConcurrentTasks
    /\ sem >= 0
    /\ sem = 0 => \A c \in Calls : ~ENABLED (\E k \in CtxArgs : Acquire(c, k))

\* every slot taken with pages open, and a caller waiting for one
C1_Witness ==
    /\ sem = 0
    /\ Cardinality(OpenPages) = MaxConcurrentTasks
    /\ \E c \in Calls : cpc[c] = "waiting"

\* C2: every call gives back the slot it took, however it ends: the free
\* slots and the calls inside the semaphore always add up to
\* max_concurrent_tasks, and with no call inside all slots are free.
C2_SlotsBalanced ==
    /\ sem + Cardinality(Inside) = MaxConcurrentTasks
    /\ Inside = {} => sem = MaxConcurrentTasks

\* every call has ended, one by the index error and one by the timeout
C2_Witness ==
    /\ \A c \in Calls : Done(c)
    /\ \E c \in Calls : cres[c] = "ValueError"
    /\ \E c \in Calls : cevent[c] = "timeout"
    /\ sem = MaxConcurrentTasks

\* C3: a call that has returned or raised has no page open.
C3_PagesClosed == \A c \in Calls : Done(c) => cpage[c] # "open"

\* one call has returned text and one None, each after opening a page
C3_Witness ==
    /\ \E c \in Calls : Done(c) /\ cres[c] = "text" /\ cpage[c] = "closed"
    /\ \E c \in Calls : Done(c) /\ cres[c] = "none" /\ cpage[c] = "closed"

\* C4: no call is in the extraction phase (lines 106-175) with more than
\* max_task_time passed since its wait_for started.
C4_ExtractionWithinBudget ==
    \A c \in Calls : cpc[c] = "extract" => ~clate[c]

\* C5: a call that hit the timeout or was served a blocked page has
\* returned None.
C5_FailureYieldsNone ==
    \A c \in Calls :
        Done(c) /\ cevent[c] \in {"timeout", "blocked"} => cres[c] = "none"

\* C6: no call that was in flight or waiting for a slot when end() was called
\* ends in the closed-context error.
C6_NoClosedContextError ==
    \A c \in endSeen : Done(c) => cres[c] # "Error"

\* C7: a call whose context_id is no index of self.contexts has ended in
\* ValueError with no page opened, and holds no slot.
C7_InvalidContext ==
    \A c \in Calls :
        cpc[c] \notin {"idle", "waiting"} /\ carg[c] \notin 0..(contexts - 1) =>
            /\ Done(c)
            /\ cres[c] = "ValueError"
            /\ cpage[c] = "none"
            /\ c \notin Inside
            /\ sem + Cardinality(Inside) = MaxConcurrentTasks

\* after start(), a call made with context_id = len(self.contexts)
C7_Witness ==
    \E c \in Calls :
        /\ bstate = "started"
        /\ carg[c] = contexts
        /\ cres[c] = "ValueError"
        /\ cpage[c] = "none"
        /\ sem = MaxConcurrentTasks

(***************************************************************************)
(* GNewsFetcher: _fetch_single tasks gathered by                           *)
(* get_bundle_search_parallel, sharing self.visited_urls.                  *)
(***************************************************************************)
Urls == 1..NUrls

RECURSIVE LinksOfLen(_)
LinksOfLen(n) ==
    IF n = 0 THEN {<<>>}
    ELSE {Append(l, u) : l \in LinksOfLen(n - 1), u \in Urls}

\* the search results tried: the raw_url of each article, in order
SearchResults == UNION {LinksOfLen(n) : n \in 0..MaxLinks}

\* a loop that accepts an unseen url without recording it
RECURSIVE FetchLoopNoInsert(_, _, _)
FetchLoopNoInsert(links, results, visited) ==
    IF links = <<>> THEN [results |-> results, visited |-> visited]
    ELSE LET raw_url == Head(links)
         IN  IF raw_url \notin visited
             THEN FetchLoopNoInsert(Tail(links), Append(results, raw_url), visited)
             ELSE FetchLoopNoInsert(Tail(links), results, visited)

\* lines 104-110: the loop over search_result; it holds no await
RECURSIVE FetchLoop(_, _, _)
FetchLoop(links, results, visited) ==
    IF links = <<>> THEN [results |-> results, visited |-> visited]
    ELSE LET raw_url == Head(links)
         IN  IF raw_url \notin visited
             THEN FetchLoop(Tail(links), Append(results, raw_url),
                            visited \cup {raw_url})
             ELSE FetchLoop(Tail(links), results, visited)

InitFetch ==
    /\ bstate = "new"
    /\ contexts = 0
    /\ nclosed = 0
    /\ sem = MaxConcurrentTasks
    /\ cpc = [c \in Calls |-> "idle"]
    /\ carg = [c \in Calls |-> NoArg]
    /\ cpage = [c \in Calls |-> "none"]
    /\ purl = [c \in Calls |-> "blank"]
    /\ cres = [c \in Calls |-> "pending"]
    /\ clate = [c \in Calls |-> FALSE]
    /\ cevent = [c \in Calls |-> "none"]
    /\ endSeen = {}
    /\ visited_urls = {}
    /\ fpc = [t \in Tasks |-> "idle"]
    /\ search_result = [t \in Tasks |-> <<>>]
    /\ fresults = [t \in Tasks |-> <<>>]
    /\ bundle = NoBundle
    /\ configured = FALSE
    /\ allowed_metrics = <<>>
    /\ response = NoResponse
    /\ parsed = NoFacts
    /\ metric_data = <<>>
    /\ csv_saved = FALSE
    /\ csv_table = {}
    /\ xskip = <<>>
    /\ xpage = <<>>
    /\ xblocks = <<>>
    /\ xpath = "none"
    /\ xout = PyNone
    /\ rpc = "idle"
    /\ rcaller = "none"
    /\ rurl = <<>>
    /\ rpage_url = AboutBlank
    /\ rnav = "none"
    /\ rfail = "none"
    /\ rret = Pending
    /\ ktext = <<>>
    /\ metric_mapping = <<>>
    /\ min_score = 0
    /\ kpc = "idle"
    /\ kadded = <<>>
    /\ kprev = FALSE
    /\ kres = FALSE
    /\ ctext = <<>>
    /\ cpass = 0
    /\ conce = <<>>
    /\ ctwice = <<>>
    /\ ppc = "idle"
    /\ ptext = <<>>
    /\ pmin = 0
    /\ pcheck = 0
    /\ repeated_phrase = <<>>
    /\ pout = <<>>
    /\ task_list = <<>>
    /\ save_points = <<>>
    /\ prompts = {}
    /\ network = FALSE
    /\ mpc = "startup"
    /\ mcountry = 1
    /\ google_news_articles = <<>>
    /\ has_text = {}
    /\ passes = {}
    /\ accessed_articles = <<>>
    /\ filtered_articles = <<>>
    /\ parsed_articles = <<>>
    /\ reported = <<>>
    /\ merror = "none"
    /\ apc = "idle"
    /\ scraped = PyNone
    /\ amin = 0
    /\ full_text = <<>>
    /\ aresponse = NoResponse
    /\ flattened_data = <<>>
    /\ atable = {}
    /\ tpc = "idle"
    /\ tdata = <<>>
    /\ tshuffled = <<>>
    /\ table = {}
    /\ shuffled_table = {}

\* lines 97-100: the task hands gnews.get_news to a thread and suspends
FetchStart(t) ==
    /\ bundle = NoBundle
    /\ fpc[t] = "idle"
    /\ fpc' = [fpc EXCEPT ![t] = "fetching"]
    /\ UNCHANGED <<visited_urls, search_result, fresults, bundle>>
    /\ UNCHANGED othersOfFetch

\* lines 100-112: the thread returns the search result; the task runs the
\* loop to its end and returns its articles
FetchReturn(t, links) ==
    /\ bundle = NoBundle
    /\ fpc[t] = "fetching"
    /\ LET out == FetchLoop(links, <<>>, visited_urls)
       IN  /\ fresults' = [fresults EXCEPT ![t] = out.results]
           /\ visited_urls' = out.visited
    /\ search_result' = [search_result EXCEPT ![t] = links]
    /\ fpc' = [fpc EXCEPT ![t] = "done"]
    /\ UNCHANGED bundle
    /\ UNCHANGED othersOfFetch

\* line 100: gnews.get_news raises; the exception leaves _fetch_single
FetchRaise(t) ==
    /\ bundle = NoBundle
    /\ fpc[t] = "fetching"
    /\ fpc' = [fpc EXCEPT ![t] = "raised"]
    /\ UNCHANGED <<visited_urls, search_result, fresults, bundle>>
    /\ UNCHANGED othersOfFetch

\* the lists of the tasks, one after the other (line 121)
RECURSIVE Flatten(_, _)
Flatten(lists, t) ==
    IF t > NTasks THEN <<>> ELSE lists[t] \o Flatten(lists, t + 1)

\* lines 120-121: every task has returned; gather returns their lists and
\* get_bundle_search_parallel the articles of all of them
BundleReturn ==
    /\ bundle = NoBundle
    /\ \A t \in Tasks : fpc[t] = "done"
    /\ bundle' = [kind |-> "list", articles |-> Flatten(fresults, 1)]
    /\ UNCHANGED <<visited_urls, fpc, search_result, fresults>>
    /\ UNCHANGED othersOfFetch

\* line 120: gather has no return_exceptions: the exception of the first
\* task that raises leaves gather, get_bundle_search_parallel and the
\* asyncio.run of main.py line 98, which cancels the tasks still running
BundleRaise ==
    /\ bundle = NoBundle
    /\ \E t \in Tasks : fpc[t] = "raised"
    /\ bundle' = [kind |-> "raised", articles |-> <<>>]
    /\ UNCHANGED <<visited_urls, fpc, search_result, fresults>>
    /\ UNCHANGED othersOfFetch

NextFetch ==
    \/ \E t \in Tasks : FetchStart(t)
    \/ \E t \in Tasks, l \in SearchResults : FetchReturn(t, l)
    \/ \E t \in Tasks : FetchRaise(t)
    \/ BundleReturn
    \/ BundleRaise

SpecFetch == InitFetch /\ [][NextFetch]_vars

\* how many times url u is in the sequence
CountIn(seq, u) == Cardinality({i \in 1..Len(seq) : seq[i] = u})

RECURSIVE SumOver(_, _)
SumOver(f, S) ==
    IF S = {} THEN 0
    ELSE LET x == CHOOSE y \in S : TRUE IN f[x] + SumOver(f, S \ {x})

\* how many articles with url u the tasks have emitted, all together
Emitted(u) == SumOver([t \in Tasks |-> CountIn(fresults[t], u)], Tasks)

\* the tasks whose search returned url u
OfferedBy(u) == {t \in Tasks : fpc[t] = "done" /\ CountIn(search_result[t], u) > 0}

\* C8: whatever the interleaving, a url returned by one or more searches has
\* been emitted exactly once, no url is emitted twice, and the visited set
\* holds exactly the urls emitted: none is in it before it is accepted and
\* none is accepted without being in it.
C8_EmittedOnce ==
    /\ \A u \in Urls : Emitted(u) <= 1
    /\ \A u \in Urls : OfferedBy(u) # {} => Emitted(u) = 1
    /\ visited_urls = {u \in Urls : Emitted(u) = 1}

\* two searches have returned the same url, one of them twice
C8_Witness ==
    \E u \in Urls : \E t1, t2 \in Tasks :
        /\ t1 # t2
        /\ t1 \in OfferedBy(u)
        /\ t2 \in OfferedBy(u)
        /\ CountIn(search_result[t1], u) > 1
        /\ Emitted(u) = 1

(***************************************************************************)
(* get_page_text on the pages of the corpus.                               *)
(***************************************************************************)
InitExtract ==
    /\ bstate = "new"
    /\ contexts = 0
    /\ nclosed = 0
    /\ sem = MaxConcurrentTasks
    /\ cpc = [c \in Calls |-> "idle"]
    /\ carg = [c \in Calls |-> NoArg]
    /\ cpage = [c \in Calls |-> "none"]
    /\ purl = [c \in Calls |-> "blank"]
    /\ cres = [c \in Calls |-> "pending"]
    /\ clate = [c \in Calls |-> FALSE]
    /\ cevent = [c \in Calls |-> "none"]
    /\ endSeen = {}
    /\ visited_urls = {}
    /\ fpc = [t \in Tasks |-> "idle"]
    /\ search_result = [t \in Tasks |-> <<>>]
    /\ fresults = [t \in Tasks |-> <<>>]
    /\ bundle = NoBundle
    /\ configured = FALSE
    /\ allowed_metrics = <<>>
    /\ response = NoResponse
    /\ parsed = NoFacts
    /\ metric_data = <<>>
    /\ csv_saved = FALSE
    /\ csv_table = {}
    /\ xskip = <<>>
    /\ xpage = <<>>
    /\ xblocks = <<>>
    /\ xpath = "none"
    /\ xout = PyNone
    /\ rpc = "idle"
    /\ rcaller = "none"
    /\ rurl = <<>>
    /\ rpage_url = AboutBlank
    /\ rnav = "none"
    /\ rfail = "none"
    /\ rret = Pending
    /\ ktext = <<>>
    /\ metric_mapping = <<>>
    /\ min_score = 0
    /\ kpc = "idle"
    /\ kadded = <<>>
    /\ kprev = FALSE
    /\ kres = FALSE
    /\ ctext = <<>>
    /\ cpass = 0
    /\ conce = <<>>
    /\ ctwice = <<>>
    /\ ppc = "idle"
    /\ ptext = <<>>
    /\ pmin = 0
    /\ pcheck = 0
    /\ repeated_phrase = <<>>
    /\ pout = <<>>
    /\ task_list = <<>>
    /\ save_points = <<>>
    /\ prompts = {}
    /\ network = FALSE
    /\ mpc = "startup"
    /\ mcountry = 1
    /\ google_news_articles = <<>>
    /\ has_text = {}
    /\ passes = {}
    /\ accessed_articles = <<>>
    /\ filtered_articles = <<>>
    /\ parsed_articles = <<>>
    /\ reported = <<>>
    /\ merror = "none"
    /\ apc = "idle"
    /\ scraped = PyNone
    /\ amin = 0
    /\ full_text = <<>>
    /\ aresponse = NoResponse
    /\ flattened_data = <<>>
    /\ atable = {}
    /\ tpc = "idle"
    /\ tdata = <<>>
    /\ tshuffled = <<>>
    /\ table = {}
    /\ shuffled_table = {}

\* the 'website text skip words' of config.json tried: none, the default
\* words, and a word written with a capital
SkipWordConfigs == {<<>>, DefaultSkipWords, <<<<"C","a","p","t","c","h","a">>>>}

\* line 35: self.skip_words = skip_words or ['blocked', 'captcha', 'consent']
SkipWordsOf(config) == IF config = <<>> THEN DefaultSkipWords ELSE config

\* a browser is made with the configured skip words, and serves a page
Serve ==
    /\ xout.kind = "none"
    /\ xpage = <<>>
    /\ \E page \in Pages \ {<<>>}, config \in SkipWordConfigs :
          /\ xpage' = page
          /\ xskip' = SkipWordsOf(config)
    /\ xout' = [kind |-> "pending", text |-> <<>>]
    /\ UNCHANGED <<xblocks, xpath>>
    /\ UNCHANGED othersOfExtract

\* lines 112-175 on that page
GetPageText ==
    /\ xout.kind = "pending"
    /\ xblocks' = TextBlocks(xpage, xskip)
    /\ xpath' = IF SelectorBlocks(xpage, xskip) # <<>> THEN "selector" ELSE "fallback"
    /\ xout' = ExtractPageText(xpage, xskip, MinTextLength)
    /\ UNCHANGED <<xskip, xpage>>
    /\ UNCHANGED othersOfExtract

NextExtract ==
    \/ Serve
    \/ GetPageText

SpecExtract == InitExtract /\ [][NextExtract]_vars

\* C9: get_page_text returns None or a string of at least min_text_length
\* characters, whichever path produced the text blocks.
C9_LengthGate ==
    xout.kind # "pending" =>
        \/ xout.kind = "none"
        \/ xout.kind = "text" /\ Len(xout.text) >= MinTextLength

\* text returned by the raw-markup fallback, from a page of two nodes
C9_Witness ==
    /\ xout.kind = "text"
    /\ Len(xpage) = 2
    /\ SelectorBlocks(xpage, DefaultSkipWords) = <<>>
    /\ Len(xout.text) >= MinTextLength

(***************************************************************************)
(* AsyncTextParser: configure_parsing and format_response.                 *)
(***************************************************************************)
\* json.dumps (python FALSE) or repr (python TRUE) of a document value
RECURSIVE Ser(_, _)
Ser(python, v) ==
    LET quote == IF python THEN "'" ELSE "\""
        member(key, val) == <<quote>> \o key \o <<quote, ":", " ">> \o Ser(python, val)
    IN  CASE v.t = "null" -> IF python THEN <<"N","o","n","e">> ELSE <<"n","u","l","l">>
          [] v.t = "num" -> v.s
          [] v.t = "str" -> <<quote>> \o v.s \o <<quote>>
          [] v.t = "list" ->
                <<"[">> \o Join(<<",", " ">>,
                                [i \in 1..Len(v.items) |-> Ser(python, v.items[i])])
                        \o <<"]">>
          [] v.t = "dict" ->
                LET all == << <<<<"c","o","u","n","t","r","y">>, v.country>>, <<<<"m","e","t","r","i","c">>, v.metric>>,
                              <<<<"d","a","t","e","s">>, v.dates>> >>
                    present == SelectSeq(all, LAMBDA m : m[2].t # "missing")
                IN  <<"{">> \o Join(<<",", " ">>,
                                    [i \in 1..Len(present) |->
                                        member(present[i][1], present[i][2])])
                            \o <<"}">>

\* str(entry.get(key, ""))
PyStrOf(v) ==
    CASE v.t = "missing" -> <<>>
      [] v.t = "null" -> <<"N","o","n","e">>
      [] v.t \in {"num", "str"} -> v.s

\* a character matched by [a-zA-Z]
IsLetter(c) == \E i \in 1..26 : UpperCase[i] = c \/ LowerCase[i] = c

StartsWith(s, prefix) ==
    Len(s) >= Len(prefix) /\ SubSeq(s, 1, Len(prefix)) = prefix

EndsWith(s, suffix) ==
    Len(s) >= Len(suffix) /\ SubSeq(s, Len(s) - Len(suffix) + 1, Len(s)) = suffix

\* the backquote character, which a TLA+ string cannot hold
BackQuote == "bq"

\* the code fence a model puts around its JSON
Fence == <<BackQuote, BackQuote, BackQuote>>

\* re.sub(r"^```[a-zA-Z]*\n?", "", response)
StripFenceHead(s) ==
    IF ~StartsWith(s, Fence) THEN s
    ELSE LET stops == {j \in 4..(Len(s) + 1) :
                          \A k \in 4..(j - 1) : IsLetter(s[k])}
             after == CHOOSE j \in stops : \A m \in stops : m <= j
             from == IF after <= Len(s) /\ s[after] = "\n" THEN after + 1 ELSE after
         IN  SubSeq(s, from, Len(s))

\* re.sub(r"\n?```$", "", response): $ is the end of the string, or the
\* place before a newline that ends it
StripFenceTail(s) ==
    LET body == IF EndsWith(s, <<"\n">>) THEN SubSeq(s, 1, Len(s) - 1) ELSE s
        rest == SubSeq(s, Len(body) + 1, Len(s))
    IN  IF ~EndsWith(body, Fence) THEN s
        ELSE LET cut == SubSeq(body, 1, Len(body) - 3)
             IN  (IF EndsWith(cut, <<"\n">>) THEN SubSeq(cut, 1, Len(cut) - 1) ELSE cut)
                    \o rest

\* re.match(r"^\d{2}-\d{4}$", d)
DateMatches(d) ==
    LET n == IF EndsWith(d, <<"\n">>) THEN Len(d) - 1 ELSE Len(d)
    IN  /\ n = 7
        /\ d[1] \in Digits /\ d[2] \in Digits
        /\ d[3] = "-"
        /\ \A i \in 4..7 : d[i] \in Digits

\* x in self.allowed_metrics
InList(x, list) == \E i \in 1..Len(list) : list[i] = x

\* lines 109: the strings of dates that pass the date test.  Iterating a
\* string yields its characters; None and numbers cannot be iterated.
ValidDates(dates) ==
    CASE dates.t = "missing" -> <<>>
      [] dates.t = "str" ->
            SelectSeq([i \in 1..Len(dates.s) |-> <<dates.s[i]>>] \o <<>>, DateMatches)
      [] dates.t = "list" ->
            LET strs == SelectSeq(dates.items,
                                  LAMBDA d : d.t = "str" /\ DateMatches(d.s))
            IN  [i \in 1..Len(strs) |-> strs[i].s] \o <<>>

\* line 106: metric not in self.allowed_metrics skips the entry
MetricAllowed(metric, allowed) == InList(metric, allowed)

\* lines 99-116, one entry: skipped, kept as a fact, or TypeError raised
EntryOutcome(entry, allowed) ==
    IF entry.t # "dict" THEN [kind |-> "skip"]
    ELSE LET country == Strip(PyStrOf(entry.country))
             metric == Lower(Strip(PyStrOf(entry.metric)))
         IN  IF ~MetricAllowed(metric, allowed) THEN [kind |-> "skip"]
             ELSE IF entry.dates.t \in {"null", "num"} THEN [kind |-> "raise"]
             ELSE LET valid_dates == ValidDates(entry.dates)
                  IN  IF country # <<>> /\ metric # <<>> /\ valid_dates # <<>>
                      THEN [kind |-> "keep",
                            fact |-> [country |-> country, metric |-> metric,
                                      dates |-> valid_dates]]
                      ELSE [kind |-> "skip"]

\* lines 95-118 on the parsed data
FormatData(data, allowed) ==
    IF data.t # "list" THEN NoFacts
    ELSE LET outcomes == [i \in 1..Len(data.items) |->
                             EntryOutcome(data.items[i], allowed)] \o <<>>
             kept == SelectSeq(outcomes, LAMBDA o : o.kind = "keep")
         IN  IF \E i \in 1..Len(outcomes) : outcomes[i].kind = "raise"
             THEN [kind |-> "TypeError", facts |-> <<>>]
             ELSE IF kept = <<>> THEN NoFacts
             ELSE [kind |-> "list", facts |-> [i \in 1..Len(kept) |-> kept[i].fact] \o <<>>]

\* lines 87-93: json.loads, then ast.literal_eval, of the text
Loads(text, doc) ==
    IF doc.t # "invalid" /\ (text = Ser(FALSE, doc) \/ text = Ser(TRUE, doc))
    THEN doc ELSE JInvalid

\* format_response, lines 75-118
FormatResponseOf(r, allowed) ==
    IF ~r.isstr \/ r.text = <<>> THEN NoFacts
    ELSE LET response_cleaned == Strip(Lower(r.text))
             head == SubSeq(response_cleaned, 1,
                            IF Len(response_cleaned) < 10 THEN Len(response_cleaned) ELSE 10)
         IN  IF Contains(head, <<"n", "o">>) THEN NoFacts
             ELSE LET body == Strip(StripFenceTail(StripFenceHead(r.text)))
                      data == Loads(body, r.doc)
                  IN  IF data.t = "invalid" THEN NoFacts
                      ELSE FormatData(data, allowed)

\* save_to_csv_flat of utils.py, lines 199-280, which main.py gives the facts
\* of format_response

\* the years of the configuration
Years == <<<<"2","0","2","1">>>>

\* f"{month:02d}-{year}", line 244
MonthStr(month, year) ==
    LET digit == <<"0","1","2","3","4","5","6","7","8","9">>
    IN  <<digit[(month \div 10) + 1], digit[(month % 10) + 1], "-">> \o year

\* lines 241-244: all_months_str
AllMonths(years) ==
    {MonthStr(month, years[y]) : month \in 1..12, y \in 1..Len(years)}

\* lines 269-270: parser.parse(date_str).strftime("%m-%Y") for a date that
\* passed format_response, two digits, a hyphen and a year of four digits
\* from 1000 on.  dateutil reads the first number as the month and the
\* second, above 31, as the year; a month outside 1..12 makes datetime raise
\* ValueError, which line 273 catches: the empty string stands for that.
ParseMonth(date_str) ==
    LET value == [c \in Digits |->
                     CHOOSE n \in 0..9 : MonthStr(n, <<>>)[2] = c]
        month == 10 * value[date_str[1]] + value[date_str[2]]
    IN  IF month \in 1..12 THEN SubSeq(date_str, 1, 7) ELSE <<>>

\* lines 263-274, one entry: the cells it sets to 1.  A cell is a row of
\* the frame, (date, country), and a metric column; a date without a row in
\* the frame selects nothing.
CellsOf(entry, metrics, countries, years) ==
    IF ~InList(entry.country, countries) \/ ~InList(entry.metric, metrics) THEN {}
    ELSE {<<ParseMonth(entry.dates[k]), entry.country, entry.metric>> :
              k \in {j \in 1..Len(entry.dates) :
                        ParseMonth(entry.dates[j]) \in AllMonths(years)}}

\* a frame in which an entry's cells replace those written before it
RECURSIVE FillFrameLastWins(_, _, _, _, _)
FillFrameLastWins(data, cells, metrics, countries, years) ==
    IF data = <<>> THEN cells
    ELSE FillFrameLastWins(Tail(data), CellsOf(Head(data), metrics, countries, years),
                           metrics, countries, years)

\* lines 262-274: the entries in order, each writing its 1s into the frame
RECURSIVE FillFrame(_, _, _, _, _)
FillFrame(data, cells, metrics, countries, years) ==
    IF data = <<>> THEN cells
    ELSE FillFrame(Tail(data), cells \cup CellsOf(Head(data), metrics, countries, years),
                   metrics, countries, years)

\* save_to_csv_flat: the frame has a row for every country and month and a
\* column for every metric, all 0 (lines 250-259); what is returned is the
\* set of its cells that hold 1 when it is written
SaveToCsvFlat(data, metrics, countries, years) ==
    FillFrame(data, {}, metrics, countries, years)

\* the metric titles of the configuration given to configure_parsing
MetricTitles == <<<<"F","l","o","o","d">>, <<"R","i","o","t">>>>

\* the same titles as a configuration may spell them
TitleSpellings ==
    {MetricTitles, [i \in 1..Len(MetricTitles) |-> Lower(MetricTitles[i])] \o <<>>}

\* the country, metric and date strings of the model responses tried
KE == JStr(<<"K","E">>)

Flood == JStr(<<"F","l","o","o","d">>)

Riot == JStr(<<"R","i","o","t">>)

War == JStr(<<"w","a","r">>)

GoodDate == JStr(<<"0","3","-","2","0","2","1">>)

YearFirst == JStr(<<"2","0","2","1","-","0","3">>)

Month13 == JStr(<<"1","3","-","2","0","2","1">>)

MarchWords == JStr(<<"M","a","r","c","h"," ","2","0","2","1">>)

\* the list elements tried
Entries ==
    { JDict(KE, Flood, JList(<<GoodDate>>)),
      JDict(JStr(<<" ","K","E"," ">>), JStr(<<"F","L","O","O","D">>), JList(<<GoodDate, YearFirst>>)),
      JDict(KE, War, JList(<<GoodDate>>)),
      JDict(JStr(<<" ">>), Flood, JList(<<GoodDate>>)),
      JDict(KE, Riot, JList(<<YearFirst>>)),
      JDict(KE, Riot, JList(<<Month13>>)),
      JDict(KE, Riot, JList(<<MarchWords, GoodDate>>)),
      JDict(KE, Flood, JList(<<>>)),
      JDict(KE, Flood, JMissing),
      JDict(KE, Flood, JNull),
      JDict(KE, War, JNull),
      JDict(KE, Flood, GoodDate),
      JDict(KE, Flood, JNum(<<"7">>)),
      JNum(<<"7">>) }

RECURSIVE EntryLists(_)
EntryLists(n) ==
    IF n = 0 THEN {<<>>}
    ELSE {Append(l, e) : l \in EntryLists(n - 1), e \in Entries}

\* the documents: lists of entries, one that is no list, and a list whose
\* first element is a null
Docs ==
    {JList(l) : l \in UNION {EntryLists(n) : n \in 0..MaxEntries}}
        \cup {JDict(KE, Flood, JList(<<GoodDate>>))}
        \cup {JList(<<JNull, JDict(KE, Flood, JList(<<GoodDate>>))>>)}

\* the same document as the model may write it
Wrapped(style, doc) ==
    CASE style = "json" -> Ser(FALSE, doc)
      [] style = "python" -> Ser(TRUE, doc)
      [] style = "fenced" ->
            Fence \o <<"j","s","o","n">> \o <<"\n">> \o Ser(FALSE, doc) \o <<"\n">> \o Fence

Styles == {"json", "python", "fenced"}

\* the responses tried: documents, texts that are no document, a non-string
Responses ==
    {[isstr |-> TRUE, text |-> Wrapped(st, d), doc |-> d] : st \in Styles, d \in Docs}
        \cup {[isstr |-> TRUE, text |-> t, doc |-> JInvalid] :
                 t \in {<<"N","o"," ","r","e","l","e","v","a","n","t"," ","d","a","t","a",".">>, <<"S","o","r","r","y",","," ","I"," ","c","a","n","n","o","t"," ","h","e","l","p",".">>}}
        \cup {[isstr |-> FALSE, text |-> <<>>, doc |-> JInvalid]}

InitParse ==
    /\ bstate = "new"
    /\ contexts = 0
    /\ nclosed = 0
    /\ sem = MaxConcurrentTasks
    /\ cpc = [c \in Calls |-> "idle"]
    /\ carg = [c \in Calls |-> NoArg]
    /\ cpage = [c \in Calls |-> "none"]
    /\ purl = [c \in Calls |-> "blank"]
    /\ cres = [c \in Calls |-> "pending"]
    /\ clate = [c \in Calls |-> FALSE]
    /\ cevent = [c \in Calls |-> "none"]
    /\ endSeen = {}
    /\ visited_urls = {}
    /\ fpc = [t \in Tasks |-> "idle"]
    /\ search_result = [t \in Tasks |-> <<>>]
    /\ fresults = [t \in Tasks |-> <<>>]
    /\ bundle = NoBundle
    /\ configured = FALSE
    /\ allowed_metrics = <<>>
    /\ response = NoResponse
    /\ parsed = NoFacts
    /\ metric_data = <<>>
    /\ csv_saved = FALSE
    /\ csv_table = {}
    /\ xskip = <<>>
    /\ xpage = <<>>
    /\ xblocks = <<>>
    /\ xpath = "none"
    /\ xout = PyNone
    /\ rpc = "idle"
    /\ rcaller = "none"
    /\ rurl = <<>>
    /\ rpage_url = AboutBlank
    /\ rnav = "none"
    /\ rfail = "none"
    /\ rret = Pending
    /\ ktext = <<>>
    /\ metric_mapping = <<>>
    /\ min_score = 0
    /\ kpc = "idle"
    /\ kadded = <<>>
    /\ kprev = FALSE
    /\ kres = FALSE
    /\ ctext = <<>>
    /\ cpass = 0
    /\ conce = <<>>
    /\ ctwice = <<>>
    /\ ppc = "idle"
    /\ ptext = <<>>
    /\ pmin = 0
    /\ pcheck = 0
    /\ repeated_phrase = <<>>
    /\ pout = <<>>
    /\ task_list = <<>>
    /\ save_points = <<>>
    /\ prompts = {}
    /\ network = FALSE
    /\ mpc = "startup"
    /\ mcountry = 1
    /\ google_news_articles = <<>>
    /\ has_text = {}
    /\ passes = {}
    /\ accessed_articles = <<>>
    /\ filtered_articles = <<>>
    /\ parsed_articles = <<>>
    /\ reported = <<>>
    /\ merror = "none"
    /\ apc = "idle"
    /\ scraped = PyNone
    /\ amin = 0
    /\ full_text = <<>>
    /\ aresponse = NoResponse
    /\ flattened_data = <<>>
    /\ atable = {}
    /\ tpc = "idle"
    /\ tdata = <<>>
    /\ tshuffled = <<>>
    /\ table = {}
    /\ shuffled_table = {}

\* main.py line 268 and logic_parser.py lines 58-61: the parser is given
\* the titles of metric_data and stores them lower-cased
ConfigureParsing(titles) ==
    /\ ~configured
    /\ configured' = TRUE
    /\ metric_data' = titles
    /\ allowed_metrics' = [i \in 1..Len(titles) |-> Lower(titles[i])] \o <<>>
    /\ UNCHANGED <<response, parsed, csv_saved, csv_table>>
    /\ UNCHANGED othersOfParse

\* format_response(r) on a configured parser, for one of the responses
FormatResponse ==
    /\ configured
    /\ response = NoResponse
    /\ \E r \in Responses :
          /\ response' = r
          /\ parsed' = FormatResponseOf(r, allowed_metrics)
    /\ UNCHANGED <<configured, allowed_metrics, metric_data, csv_saved, csv_table>>
    /\ UNCHANGED othersOfParse

\* the countries save_to_csv_flat is given
ParserCountries == <<KE.s, <<"M","L">>>>

\* main.py lines 288-298: the facts format_response returned are flattened
\* and given to save_to_csv_flat with the titles of metric_data
SaveParsed ==
    /\ response # NoResponse
    /\ parsed.kind \in {"none", "list"}
    /\ ~csv_saved
    /\ csv_saved' = TRUE
    /\ csv_table' = SaveToCsvFlat(parsed.facts, metric_data, ParserCountries, Years)
    /\ UNCHANGED <<configured, allowed_metrics, response, parsed, metric_data>>
    /\ UNCHANGED othersOfParse

NextParse ==
    \/ \E titles \in TitleSpellings : ConfigureParsing(titles)
    \/ FormatResponse
    \/ SaveParsed

SpecParse == InitParse /\ [][NextParse]_vars

\* every fact of the list has a country, an allowed metric and dates that
\* all pass the date test
FactsValid ==
    \A i \in 1..Len(parsed.facts) :
        LET f == parsed.facts[i]
        IN  /\ f.country # <<>>
            /\ InList(f.metric, [k \in 1..Len(MetricTitles) |-> Lower(MetricTitles[k])])
            /\ f.dates # <<>>
            /\ \A k \in 1..Len(f.dates) : DateMatches(f.dates[k])

\* C10: for every response format_response returns None or a non-empty list
\* of facts, each with a non-empty country, a metric of allowed_metrics and
\* a non-empty list of dates that passed the date test.
C10_ValidFacts ==
    /\ parsed.kind \in {"none", "list"}
    /\ parsed.kind = "list" => parsed.facts # <<>> /\ FactsValid

\* C10, for the calls that return: what is returned is None or a non-empty
\* list of valid facts.
C10_ReturnedFactsValid ==
    /\ parsed.kind = "none" => parsed.facts = <<>>
    /\ parsed.kind = "list" => parsed.facts # <<>> /\ FactsValid

\* C11: for every response format_response returns None or a list; no
\* exception leaves it.
C11_NeverRaises ==
    response # NoResponse => parsed.kind # "TypeError"

\* a two-digit month 01..12, a hyphen and a four-digit year
IsMonthYear(d) ==
    /\ Len(d) = 7
    /\ \/ d[1] = "0" /\ d[2] \in Digits \ {"0"}
       \/ d[1] = "1" /\ d[2] \in {"0", "1", "2"}
    /\ d[3] = "-"
    /\ \A i \in 4..7 : d[i] \in Digits

\* the entries of the response whose country and metric pass and whose dates
\* are a list
DatedEntries ==
    IF response = NoResponse \/ response.doc.t # "list" THEN <<>>
    ELSE SelectSeq(response.doc.items,
                   LAMBDA e : /\ e.t = "dict"
                              /\ e.dates.t = "list"
                              /\ Strip(PyStrOf(e.country)) # <<>>
                              /\ InList(Lower(Strip(PyStrOf(e.metric))), allowed_metrics))

\* C12: the date filter accepts a string exactly when it is a month 01..12,
\* a hyphen and a four-digit year: every date of a returned fact is one, and
\* every such date of an entry that passed the other tests is returned.
C12_DateFilter ==
    parsed.kind = "list" =>
        /\ \A i \in 1..Len(parsed.facts) :
              \A k \in 1..Len(parsed.facts[i].dates) :
                  IsMonthYear(parsed.facts[i].dates[k])
        /\ \A i \in 1..Len(DatedEntries) :
              \A k \in 1..Len(DatedEntries[i].dates.items) :
                  LET d == DatedEntries[i].dates.items[k]
                  IN  d.t = "str" /\ IsMonthYear(d.s) =>
                          \E j \in 1..Len(parsed.facts) : InList(d.s, parsed.facts[j].dates)

(***************************************************************************)
(* resolve_final_url, lines 68-89, on concrete urls: one call, awaited by   *)
(* get_page_text under wait_for (lines 102-105) or awaited directly.       *)
(***************************************************************************)
UPlain == <<"h","t","t","p","s",":","/","/","a",".","o","r","g","/","n">>

URss == <<"h","t","t","p","s",":","/","/","n","e","w","s",".","g","o","o","g","l","e",".","c","o","m","/","r","s","s","/","a","r","t","i","c","l","e","s","/","a">>

UGoogle == <<"h","t","t","p","s",":","/","/","w","w","w",".","g","o","o","g","l","e",".","c","o","m","/","u","r","l","?","q","=","b">>

\* a url of another site with "google" in its path
UMention == <<"h","t","t","p","s",":","/","/","a",".","o","r","g","/","g","o","o","g","l","e","-","t","a","x">>

ULanding == <<"h","t","t","p","s",":","/","/","b",".","o","r","g","/","n">>

\* the url arguments tried
ResolveUrls == {<<>>, UPlain, URss, UGoogle, UMention}

\* "google" in url
HasGoogle(url) == Contains(url, <<"g","o","o","g","l","e">>)

\* line 76: "news.google.com/rss/articles" in page.url
IsRssArticle(url) == Contains(url, <<"n","e","w","s",".","g","o","o","g","l","e",".","c","o","m","/","r","s","s","/","a","r","t","i","c","l","e","s">>)

\* where a navigation to url can commit: the url itself, or the page an
\* HTTP redirect leads to
Landings(url) == {url, ULanding}

ResolveCallers == {"get_page_text", "direct"}

\* before the call: the page is new
InitResolve ==
    /\ bstate = "new"
    /\ contexts = 0
    /\ nclosed = 0
    /\ sem = MaxConcurrentTasks
    /\ cpc = [c \in Calls |-> "idle"]
    /\ carg = [c \in Calls |-> NoArg]
    /\ cpage = [c \in Calls |-> "none"]
    /\ purl = [c \in Calls |-> "blank"]
    /\ cres = [c \in Calls |-> "pending"]
    /\ clate = [c \in Calls |-> FALSE]
    /\ cevent = [c \in Calls |-> "none"]
    /\ endSeen = {}
    /\ visited_urls = {}
    /\ fpc = [t \in Tasks |-> "idle"]
    /\ search_result = [t \in Tasks |-> <<>>]
    /\ fresults = [t \in Tasks |-> <<>>]
    /\ bundle = NoBundle
    /\ configured = FALSE
    /\ allowed_metrics = <<>>
    /\ response = NoResponse
    /\ parsed = NoFacts
    /\ metric_data = <<>>
    /\ csv_saved = FALSE
    /\ csv_table = {}
    /\ xskip = <<>>
    /\ xpage = <<>>
    /\ xblocks = <<>>
    /\ xpath = "none"
    /\ xout = PyNone
    /\ rpc = "idle"
    /\ rcaller = "none"
    /\ rurl = <<>>
    /\ rpage_url = AboutBlank
    /\ rnav = "none"
    /\ rfail = "none"
    /\ rret = Pending
    /\ ktext = <<>>
    /\ metric_mapping = <<>>
    /\ min_score = 0
    /\ kpc = "idle"
    /\ kadded = <<>>
    /\ kprev = FALSE
    /\ kres = FALSE
    /\ ctext = <<>>
    /\ cpass = 0
    /\ conce = <<>>
    /\ ctwice = <<>>
    /\ ppc = "idle"
    /\ ptext = <<>>
    /\ pmin = 0
    /\ pcheck = 0
    /\ repeated_phrase = <<>>
    /\ pout = <<>>
    /\ task_list = <<>>
    /\ save_points = <<>>
    /\ prompts = {}
    /\ network = FALSE
    /\ mpc = "startup"
    /\ mcountry = 1
    /\ google_news_articles = <<>>
    /\ has_text = {}
    /\ passes = {}
    /\ accessed_articles = <<>>
    /\ filtered_articles = <<>>
    /\ parsed_articles = <<>>
    /\ reported = <<>>
    /\ merror = "none"
    /\ apc = "idle"
    /\ scraped = PyNone
    /\ amin = 0
    /\ full_text = <<>>
    /\ aresponse = NoResponse
    /\ flattened_data = <<>>
    /\ atable = {}
    /\ tpc = "idle"
    /\ tdata = <<>>
    /\ tshuffled = <<>>
    /\ table = {}
    /\ shuffled_table = {}

ResolvingPcs == {"goto", "netidle", "rsswait"}

\* the call ends with a return value
Returned(v) ==
    /\ rpc' = "returned"
    /\ rret' = PyStr(v)

\* lines 69-71: the call starts; an empty url, or one without "google", is
\* returned at once and the page is left where it is
ResolveCall ==
    /\ rpc = "idle"
    /\ \E url \in ResolveUrls, caller \in ResolveCallers :
          /\ rurl' = url
          /\ rcaller' = caller
          /\ IF url = <<>> \/ ~HasGoogle(url)
             THEN Returned(url)
             ELSE rpc' = "goto" /\ rret' = rret
    /\ UNCHANGED <<rpage_url, rnav, rfail>>
    /\ UNCHANGED othersOfResolve

\* line 73: page.goto(url, wait_until="domcontentloaded") returns
ResolveGotoOk ==
    /\ rpc = "goto"
    /\ \E landing \in Landings(rurl) : rpage_url' = landing
    /\ rnav' = "dom"
    /\ rpc' = "netidle"
    /\ UNCHANGED <<rcaller, rurl, rfail, rret>>
    /\ UNCHANGED othersOfResolve

\* lines 73, 87-89: page.goto raises (a Playwright error, its own navigation
\* timeout included), before or after the navigation committed
ResolveGotoError ==
    /\ rpc = "goto"
    /\ \E landing \in {AboutBlank} \cup Landings(rurl) : rpage_url' = landing
    /\ rfail' = "error"
    /\ Returned(rurl)
    /\ UNCHANGED <<rcaller, rurl, rnav>>
    /\ UNCHANGED othersOfResolve

\* line 74: wait_for_load_state("networkidle") returns; lines 76-83
ResolveNetidleOk ==
    /\ rpc = "netidle"
    /\ rnav' = "idle"
    /\ IF IsRssArticle(rpage_url)
       THEN rpc' = "rsswait" /\ rret' = rret
       ELSE Returned(rpage_url)
    /\ UNCHANGED <<rcaller, rurl, rpage_url, rfail>>
    /\ UNCHANGED othersOfResolve

\* lines 74, 87-89: wait_for_load_state raises a Playwright error
ResolveNetidleError ==
    /\ rpc = "netidle"
    /\ rfail' = "error"
    /\ Returned(rurl)
    /\ UNCHANGED <<rcaller, rurl, rpage_url, rnav>>
    /\ UNCHANGED othersOfResolve

\* lines 79-83: wait_for_url("**") returns, after the client-side redirect
\* or without one, or its PlaywrightTimeoutError is caught
ResolveRssDone ==
    /\ rpc = "rsswait"
    /\ \E landing \in {rpage_url, ULanding} :
          /\ rpage_url' = landing
          /\ Returned(landing)
    /\ UNCHANGED <<rcaller, rurl, rnav, rfail>>
    /\ UNCHANGED othersOfResolve

\* lines 79, 87-89: wait_for_url raises another Playwright error
ResolveRssError ==
    /\ rpc = "rsswait"
    /\ rfail' = "error"
    /\ Returned(rurl)
    /\ UNCHANGED <<rcaller, rurl, rpage_url, rnav>>
    /\ UNCHANGED othersOfResolve

\* lines 84-86: what the handler of asyncio.TimeoutError returns
TimeoutReturns(url, page_url) == page_url

\* lines 73-79, 84-86: one of the wait_for calls of resolve_final_url
\* expires after max_task_time.  Under get_page_text the wait_for of line
\* 102 has the same timeout and started earlier, so it expires first: these
\* expire only in a call awaited directly.  A navigation that times out may
\* have committed or not.
ResolveInnerTimeout ==
    /\ rpc \in ResolvingPcs
    /\ rcaller = "direct"
    /\ \E landing \in IF rpc = "goto" THEN {AboutBlank} \cup Landings(rurl)
                                     ELSE {rpage_url} :
          /\ rpage_url' = landing
          /\ Returned(TimeoutReturns(rurl, landing))
    /\ rfail' = "timeout"
    /\ UNCHANGED <<rcaller, rurl, rnav>>
    /\ UNCHANGED othersOfResolve

\* lines 102-105, 177-180: the wait_for of get_page_text expires and cancels
\* resolve_final_url; CancelledError is no Exception and passes lines 84-89
ResolveOuterTimeout ==
    /\ rpc \in ResolvingPcs
    /\ rcaller = "get_page_text"
    /\ rpc' = "cancelled"
    /\ rret' = Cancelled
    /\ rfail' = "timeout"
    /\ UNCHANGED <<rcaller, rurl, rpage_url, rnav>>
    /\ UNCHANGED othersOfResolve

\* lines 106-112: get_page_text has the final url, waits for the page to
\* settle and starts extracting its text
ResolveThenExtract ==
    /\ rpc = "returned"
    /\ rcaller = "get_page_text"
    /\ rpc' = "extracting"
    /\ UNCHANGED <<rcaller, rurl, rpage_url, rnav, rfail, rret>>
    /\ UNCHANGED othersOfResolve

NextResolve ==
    \/ ResolveCall
    \/ ResolveGotoOk
    \/ ResolveGotoError
    \/ ResolveNetidleOk
    \/ ResolveNetidleError
    \/ ResolveRssDone
    \/ ResolveRssError
    \/ ResolveInnerTimeout
    \/ ResolveOuterTimeout
    \/ ResolveThenExtract

SpecResolve == InitResolve /\ [][NextResolve]_vars

\* C13: for every non-empty url, when no navigation step failed, extraction
\* starts only after the page was navigated to the url: the DOM was parsed
\* and the network settled.
C13_NavigatedBeforeExtraction ==
    rpc = "extracting" /\ rurl # <<>> /\ rfail = "none" => rnav = "idle"

\* C14: whenever navigation failed, by an error or by a timeout of one of
\* its waits, and resolve_final_url has returned, it returned the url it was
\* given; it raises nothing of its own.
C14_FailureReturnsUrl ==
    /\ rfail # "none" /\ rpc \in {"returned", "extracting"} => rret = PyStr(rurl)
    /\ rret.kind \in {"pending", "text", "CancelledError"}

(***************************************************************************)
(* AsyncKeywordFilter._preprocess_sync, logic_parser.py lines 150-162.     *)
(***************************************************************************)
\* the length of a longest common subsequence of a and b
RECURSIVE Lcs(_, _)
Lcs(a, b) ==
    IF a = <<>> \/ b = <<>> THEN 0
    ELSE IF Head(a) = Head(b) THEN 1 + Lcs(Tail(a), Tail(b))
    ELSE LET x == Lcs(Tail(a), b)
             y == Lcs(a, Tail(b))
         IN  IF x >= y THEN x ELSE y

\* fuzz.ratio(a, b) >= score: the ratio is 100 times the normalised Indel
\* similarity, 200 * lcs / (len(a) + len(b))
RatioAtLeast(a, b, score) ==
    200 * Lcs(a, b) >= score * (Len(a) + Len(b))

\* the alignments fuzz.partial_ratio tries: the windows of the longer string
\* as long as the shorter one, and its shorter prefixes and suffixes
Windows(longer, m) ==
    {SubSeq(longer, i, i + m - 1) : i \in 1..(Len(longer) - m + 1)}
        \cup {SubSeq(longer, 1, k) : k \in 1..(m - 1)}
        \cup {SubSeq(longer, Len(longer) - k + 1, Len(longer)) : k \in 1..(m - 1)}

\* fuzz.partial_ratio(s1, s2) >= score: the best ratio of the shorter string
\* against an alignment in the longer one
PartialRatioAtLeast(s1, s2, score) ==
    LET shorter == IF Len(s1) <= Len(s2) THEN s1 ELSE s2
        longer == IF Len(s1) <= Len(s2) THEN s2 ELSE s1
    IN  IF shorter = <<>> THEN (longer = <<>> \/ score <= 0)
        ELSE \E w \in Windows(longer, Len(shorter)) : RatioAtLeast(shorter, w, score)

\* lines 156-161 for one keyword: the exact test, then the fuzzy test on
\* every word of the text
KeywordMatches(kw, text_lower, score) ==
    \/ Contains(text_lower, Lower(kw))
    \/ LET words == Split(text_lower)
       IN  \E i \in 1..Len(words) : PartialRatioAtLeast(Lower(kw), words[i], score)

\* a filter that keeps a text only when every keyword matches it
PreprocessSyncAll(text, mapping, score) ==
    \A i \in 1..Len(mapping) :
        \A k \in 1..Len(mapping[i].keywords) :
            KeywordMatches(mapping[i].keywords[k], Lower(text), score)

\* _preprocess_sync: True at the first keyword of any metric that matches,
\* False when the loops end
PreprocessSync(text, mapping, score) ==
    \E i \in 1..Len(mapping) :
        \E k \in 1..Len(mapping[i].keywords) :
            KeywordMatches(mapping[i].keywords[k], Lower(text), score)

\* the most keywords a mapping holds
MaxKeywords == 2

\* the keywords and metric titles tried
KwFlood == <<"f","l","o","o","d">>

KwRiot == <<"R","i","o","t">>

KwWar == <<"w","a","r">>

Keywords == {KwFlood, KwRiot, KwWar}

Titles == <<<<"d">>, <<"c">>>>

\* the texts tried: an inflected keyword, a misspelt one, a keyword inside
\* another word, no keyword, the empty text
FilterTexts ==
    { <<"F","l","o","o","d","s"," ","h","i","t">>,
      <<"a"," ","f","l","o","d">>,
      <<"w","a","r","m"," ","d","a","y">>,
      <<"c","a","l","m">>,
      <<>> }

\* the thresholds tried; main.py line 215 passes int(threshold * 100)
MinScores == {50, 80, 100}

\* one entry of self.metric_mapping
MetricEntry(title, keywords) == [metric |-> title, keywords |-> keywords]

\* the mappings the filter is made with: no metric, or one metric with no
\* keyword or one keyword
FirstMappings ==
    {<<>>, <<MetricEntry(Titles[1], <<>>)>>}
        \cup {<<MetricEntry(Titles[1], <<kw>>)>> : kw \in Keywords}

\* the keywords of a mapping, counted
RECURSIVE KeywordCount(_)
KeywordCount(mapping) ==
    IF mapping = <<>> THEN 0
    ELSE Len(Head(mapping).keywords) + KeywordCount(Tail(mapping))

\* list.insert(pos - 1, x)
InsertAt(list, pos, x) ==
    SubSeq(list, 1, pos - 1) \o <<x>> \o SubSeq(list, pos, Len(list))

\* the mapping with kw put at place pos of the keyword list of metric i; i
\* one past the last metric adds a new metric holding kw
WithKeyword(mapping, i, pos, kw) ==
    IF i = Len(mapping) + 1
    THEN Append(mapping, MetricEntry(Titles[i], <<kw>>))
    ELSE [mapping EXCEPT ![i].keywords = InsertAt(@, pos, kw)]

InitFilter ==
    /\ bstate = "new"
    /\ contexts = 0
    /\ nclosed = 0
    /\ sem = MaxConcurrentTasks
    /\ cpc = [c \in Calls |-> "idle"]
    /\ carg = [c \in Calls |-> NoArg]
    /\ cpage = [c \in Calls |-> "none"]
    /\ purl = [c \in Calls |-> "blank"]
    /\ cres = [c \in Calls |-> "pending"]
    /\ clate = [c \in Calls |-> FALSE]
    /\ cevent = [c \in Calls |-> "none"]
    /\ endSeen = {}
    /\ visited_urls = {}
    /\ fpc = [t \in Tasks |-> "idle"]
    /\ search_result = [t \in Tasks |-> <<>>]
    /\ fresults = [t \in Tasks |-> <<>>]
    /\ bundle = NoBundle
    /\ configured = FALSE
    /\ allowed_metrics = <<>>
    /\ response = NoResponse
    /\ parsed = NoFacts
    /\ metric_data = <<>>
    /\ csv_saved = FALSE
    /\ csv_table = {}
    /\ xskip = <<>>
    /\ xpage = <<>>
    /\ xblocks = <<>>
    /\ xpath = "none"
    /\ xout = PyNone
    /\ rpc = "idle"
    /\ rcaller = "none"
    /\ rurl = <<>>
    /\ rpage_url = AboutBlank
    /\ rnav = "none"
    /\ rfail = "none"
    /\ rret = Pending
    /\ ktext = <<>>
    /\ metric_mapping = <<>>
    /\ min_score = 0
    /\ kpc = "idle"
    /\ kadded = <<>>
    /\ kprev = FALSE
    /\ kres = FALSE
    /\ ctext = <<>>
    /\ cpass = 0
    /\ conce = <<>>
    /\ ctwice = <<>>
    /\ ppc = "idle"
    /\ ptext = <<>>
    /\ pmin = 0
    /\ pcheck = 0
    /\ repeated_phrase = <<>>
    /\ pout = <<>>
    /\ task_list = <<>>
    /\ save_points = <<>>
    /\ prompts = {}
    /\ network = FALSE
    /\ mpc = "startup"
    /\ mcountry = 1
    /\ google_news_articles = <<>>
    /\ has_text = {}
    /\ passes = {}
    /\ accessed_articles = <<>>
    /\ filtered_articles = <<>>
    /\ parsed_articles = <<>>
    /\ reported = <<>>
    /\ merror = "none"
    /\ apc = "idle"
    /\ scraped = PyNone
    /\ amin = 0
    /\ full_text = <<>>
    /\ aresponse = NoResponse
    /\ flattened_data = <<>>
    /\ atable = {}
    /\ tpc = "idle"
    /\ tdata = <<>>
    /\ tshuffled = <<>>
    /\ table = {}
    /\ shuffled_table = {}

\* AsyncKeywordFilter(metric_keywords, min_score=...) and a first
\* _preprocess_sync(text)
Preprocess ==
    /\ kpc = "idle"
    /\ \E text \in FilterTexts, mapping \in FirstMappings, score \in MinScores :
          /\ ktext' = text
          /\ metric_mapping' = mapping
          /\ min_score' = score
          /\ kres' = PreprocessSync(text, mapping, score)
    /\ kpc' = "filtered"
    /\ UNCHANGED <<kadded, kprev>>
    /\ UNCHANGED othersOfFilter

\* a keyword is added to a metric's list, or a new metric with it to the
\* mapping, and _preprocess_sync runs again on the same text
AddKeyword ==
    /\ kpc \in {"filtered", "grown"}
    /\ KeywordCount(metric_mapping) < MaxKeywords
    /\ \E i \in 1..(IF Len(metric_mapping) < Len(Titles)
                    THEN Len(metric_mapping) + 1 ELSE Len(metric_mapping)),
          kw \in Keywords :
          \E pos \in 1..(IF i <= Len(metric_mapping)
                         THEN Len(metric_mapping[i].keywords) + 1 ELSE 1) :
             LET grown == WithKeyword(metric_mapping, i, pos, kw)
             IN  /\ metric_mapping' = grown
                 /\ kadded' = kw
                 /\ kres' = PreprocessSync(ktext, grown, min_score)
    /\ kprev' = kres
    /\ kpc' = "grown"
    /\ UNCHANGED <<ktext, min_score>>
    /\ UNCHANGED othersOfFilter

NextFilter ==
    \/ Preprocess
    \/ AddKeyword

SpecFilter == InitFilter /\ [][NextFilter]_vars

\* C15: a text the filter kept is still kept after a keyword was added to
\* any metric's list or a new metric with a keyword was added.
C15_Monotonic ==
    kpc = "grown" /\ kprev => kres

\* a kept text stays kept after a keyword that does not match it was put in
\* front of the one that does
C15_Witness ==
    /\ kpc = "grown"
    /\ kprev
    /\ kres
    /\ ~KeywordMatches(kadded, Lower(ktext), min_score)
    /\ metric_mapping[1].keywords[1] = kadded

(***************************************************************************)
(* clean_text, utils.py lines 446-496.                                     *)
(***************************************************************************)
\* the placeholder '<<WSEP>>' of line 446, as one character: it begins and
\* ends with a character that is neither a letter, a digit nor a space
WSep == "WSEP"

\* the no-break space
Nbsp == "nbsp"

\* [A-Za-z0-9]
IsAlnum(c) == IsLetter(c) \/ c \in Digits

\* the characters \s of the patterns matches, of those left after lines 474-476
WsChars == {" ", "\n", "\t", "\r"}

IsWs(c) == c \in WsChars

\* [.,:;?!%]
IsPunct(c) == c \in {".", ",", ":", ";", "?", "!", "%"}

\* text.replace('\r\n', '\n').replace('\r', '\n'): a '\r' before a '\n' is
\* dropped, every other '\r' becomes '\n'
NormalizeNewlines(s) ==
    LET kept == SelectSeq(Positions(s),
                          LAMBDA i : ~(s[i] = "\r" /\ i < Len(s) /\ s[i + 1] = "\n"))
    IN  [k \in 1..Len(kept) |-> IF s[kept[k]] = "\r" THEN "\n" ELSE s[kept[k]]] \o <<>>

\* lines 474-476: '\r\n' and '\r' become '\n', a tab and a no-break space a space
NormalizeSpace(s) ==
    LET t == NormalizeNewlines(s)
    IN  [i \in 1..Len(t) |-> IF t[i] \in {"\t", Nbsp} THEN " " ELSE t[i]] \o <<>>

\* the last position of the run of characters of the set cs that starts at
\* i, or i - 1 when there is none
RunEnd(s, i, cs) ==
    IF \A j \in i..Len(s) : s[j] \in cs THEN Len(s)
    ELSE (CHOOSE j \in i..Len(s) : s[j] \notin cs /\ \A k \in i..(j - 1) : s[k] \in cs) - 1

\* where the next match of a pattern starts at or after position i, given
\* the positions at which the pattern matches; Len(s) + 1 when it has none.
\* re.sub replaces the leftmost match and goes on behind it.
NextMatch(s, i, starts) ==
    IF \A p \in i..Len(s) : p \notin starts THEN Len(s) + 1
    ELSE CHOOSE p \in i..Len(s) : p \in starts /\ \A q \in i..(p - 1) : q \notin starts

\* line 479: _re_newlines.sub('\n\n', text), from position i on.  A match
\* starts at a newline and runs to the last newline of the whitespace after it.
RECURSIVE CollapseNewlines(_, _)
CollapseNewlines(s, i) ==
    LET nls(p) == {k \in (p + 1)..RunEnd(s, p + 1, WsChars) : s[k] = "\n"}
        p == NextMatch(s, i, {q \in 1..Len(s) : s[q] = "\n" /\ nls(q) # {}})
    IN  IF p > Len(s) THEN SubSeq(s, i, Len(s))
        ELSE SubSeq(s, i, p - 1) \o <<"\n", "\n">>
                 \o CollapseNewlines(s, (CHOOSE k \in nls(p) : \A m \in nls(p) : m <= k) + 1)

\* line 482: _re_multi_space.sub(_WSEP, text), from position i on
RECURSIVE MarkMultiSpace(_, _)
MarkMultiSpace(s, i) ==
    LET p == NextMatch(s, i, {q \in 1..(Len(s) - 1) : s[q] = " " /\ s[q + 1] = " "})
    IN  IF p > Len(s) THEN SubSeq(s, i, Len(s))
        ELSE SubSeq(s, i, p - 1) \o <<WSep>> \o MarkMultiSpace(s, RunEnd(s, p, {" "}) + 1)

\* the last position of the match of _re_spaced_letters that starts at i:
\* a letter or digit, then one or more times a space and a letter or digit
RECURSIVE SpacedEnd(_, _)
SpacedEnd(s, i) ==
    IF i + 2 <= Len(s) /\ s[i + 1] = " " /\ IsAlnum(s[i + 2])
    THEN SpacedEnd(s, i + 2) ELSE i

\* line 486: _re_spaced_letters.sub(lambda m: m.group(0).replace(' ', ''), text)
RECURSIVE MergeSpacedLetters(_, _)
MergeSpacedLetters(s, i) ==
    LET p == NextMatch(s, i, {q \in 1..(Len(s) - 2) :
                                 IsAlnum(s[q]) /\ s[q + 1] = " " /\ IsAlnum(s[q + 2])})
    IN  IF p > Len(s) THEN SubSeq(s, i, Len(s))
        ELSE LET e == SpacedEnd(s, p)
             IN  SubSeq(s, i, p - 1)
                     \o SelectSeq(SubSeq(s, p, e), LAMBDA c : c # " ")
                     \o MergeSpacedLetters(s, e + 1)

\* line 489: text.replace(_WSEP, ' ')
RestoreSeparators(s) == [i \in 1..Len(s) |-> IF s[i] = WSep THEN " " ELSE s[i]] \o <<>>

\* line 492: _re_space_before_punct.sub(r'\1', text), from position i on.  A
\* match is a run of whitespace up to its end and the punctuation mark
\* behind it; the mark stays.
RECURSIVE SpaceBeforePunct(_, _)
SpaceBeforePunct(s, i) ==
    LET e(q) == RunEnd(s, q, WsChars)
        p == NextMatch(s, i, {q \in 1..Len(s) :
                                 IsWs(s[q]) /\ e(q) < Len(s) /\ IsPunct(s[e(q) + 1])})
    IN  IF p > Len(s) THEN SubSeq(s, i, Len(s))
        ELSE SubSeq(s, i, p - 1) \o <<s[e(p) + 1]>> \o SpaceBeforePunct(s, e(p) + 2)

\* text.splitlines(), from position i on: the lines without their newline;
\* a newline at the end starts no line
RECURSIVE SplitLines(_, _)
SplitLines(s, i) ==
    IF i > Len(s) THEN <<>>
    ELSE LET breaks == {j \in i..Len(s) : s[j] = "\n"}
             e == IF breaks = {} THEN Len(s) + 1
                  ELSE CHOOSE j \in breaks : \A k \in breaks : j <= k
         IN  <<SubSeq(s, i, e - 1)>> \o SplitLines(s, e + 1)

\* lines 495-496: every line stripped, the lines joined, the whole stripped
StripLines(s) ==
    LET lines == SplitLines(s, 1)
    IN  Strip(Join(<<"\n">>, [k \in 1..Len(lines) |-> Strip(lines[k])]))

\* clean_text(text)
CleanText(text) ==
    IF text = <<>> THEN text
    ELSE LET collapsed == CollapseNewlines(NormalizeSpace(text), 1)
             merged == MergeSpacedLetters(MarkMultiSpace(collapsed, 1), 1)
         IN  StripLines(SpaceBeforePunct(RestoreSeparators(merged), 1))

\* the longest text tried
MaxTextLen == 4

\* the characters of the texts tried
CleanChars == {"a", "b", " ", "\n", "\t", ","}

RECURSIVE TextsOfLen(_)
TextsOfLen(n) ==
    IF n = 0 THEN {<<>>}
    ELSE {Append(t, c) : t \in TextsOfLen(n - 1), c \in CleanChars}

\* two words of two letters with one space between them
WordPairs ==
    {<<x[1], x[2], " ", x[3], x[4]>> : x \in [1..4 -> {"a", "b"}]}

CleanInputs == UNION {TextsOfLen(n) : n \in 0..MaxTextLen} \cup WordPairs

InitClean ==
    /\ bstate = "new"
    /\ contexts = 0
    /\ nclosed = 0
    /\ sem = MaxConcurrentTasks
    /\ cpc = [c \in Calls |-> "idle"]
    /\ carg = [c \in Calls |-> NoArg]
    /\ cpage = [c \in Calls |-> "none"]
    /\ purl = [c \in Calls |-> "blank"]
    /\ cres = [c \in Calls |-> "pending"]
    /\ clate = [c \in Calls |-> FALSE]
    /\ cevent = [c \in Calls |-> "none"]
    /\ endSeen = {}
    /\ visited_urls = {}
    /\ fpc = [t \in Tasks |-> "idle"]
    /\ search_result = [t \in Tasks |-> <<>>]
    /\ fresults = [t \in Tasks |-> <<>>]
    /\ bundle = NoBundle
    /\ configured = FALSE
    /\ allowed_metrics = <<>>
    /\ response = NoResponse
    /\ parsed = NoFacts
    /\ metric_data = <<>>
    /\ csv_saved = FALSE
    /\ csv_table = {}
    /\ xskip = <<>>
    /\ xpage = <<>>
    /\ xblocks = <<>>
    /\ xpath = "none"
    /\ xout = PyNone
    /\ rpc = "idle"
    /\ rcaller = "none"
    /\ rurl = <<>>
    /\ rpage_url = AboutBlank
    /\ rnav = "none"
    /\ rfail = "none"
    /\ rret = Pending
    /\ ktext = <<>>
    /\ metric_mapping = <<>>
    /\ min_score = 0
    /\ kpc = "idle"
    /\ kadded = <<>>
    /\ kprev = FALSE
    /\ kres = FALSE
    /\ ctext = <<>>
    /\ cpass = 0
    /\ conce = <<>>
    /\ ctwice = <<>>
    /\ ppc = "idle"
    /\ ptext = <<>>
    /\ pmin = 0
    /\ pcheck = 0
    /\ repeated_phrase = <<>>
    /\ pout = <<>>
    /\ task_list = <<>>
    /\ save_points = <<>>
    /\ prompts = {}
    /\ network = FALSE
    /\ mpc = "startup"
    /\ mcountry = 1
    /\ google_news_articles = <<>>
    /\ has_text = {}
    /\ passes = {}
    /\ accessed_articles = <<>>
    /\ filtered_articles = <<>>
    /\ parsed_articles = <<>>
    /\ reported = <<>>
    /\ merror = "none"
    /\ apc = "idle"
    /\ scraped = PyNone
    /\ amin = 0
    /\ full_text = <<>>
    /\ aresponse = NoResponse
    /\ flattened_data = <<>>
    /\ atable = {}
    /\ tpc = "idle"
    /\ tdata = <<>>
    /\ tshuffled = <<>>
    /\ table = {}
    /\ shuffled_table = {}

\* clean_text(text) on a text
CleanOnce ==
    /\ cpass = 0
    /\ \E text \in CleanInputs :
          /\ ctext' = text
          /\ conce' = CleanText(text)
    /\ cpass' = 1
    /\ UNCHANGED ctwice
    /\ UNCHANGED othersOfClean

\* clean_text on what clean_text returned
CleanAgain ==
    /\ cpass = 1
    /\ ctwice' = CleanText(conce)
    /\ cpass' = 2
    /\ UNCHANGED <<ctext, conce>>
    /\ UNCHANGED othersOfClean

NextClean ==
    \/ CleanOnce
    \/ CleanAgain

SpecClean == InitClean /\ [][NextClean]_vars

\* C16: clean_text(clean_text(x)) equals clean_text(x) for every text x.
C16_Idempotent ==
    cpass = 2 => ctwice = conce

(***************************************************************************)
(* remove_repeated_phrase_from_text, utils.py lines 365-416.               *)
(***************************************************************************)
\* lines 390-397, the while loop for one length, from index i (counted from
\* 1) on: the first phrase that is followed by itself, or the empty list
RECURSIVE FindAt(_, _, _)
FindAt(check_words, length, i) ==
    IF i - 1 + 2 * length > Len(check_words) THEN <<>>
    ELSE LET phrase == SubSeq(check_words, i, i + length - 1)
             next_phrase == SubSeq(check_words, i + length, i + 2 * length - 1)
         IN  IF phrase = next_phrase THEN phrase
             ELSE FindAt(check_words, length, i + 1)

\* a search that tries the lengths from the shortest up
RECURSIVE FindRepeatedShortest(_, _, _)
FindRepeatedShortest(check_words, length, min_words_in_phrase) ==
    IF min_words_in_phrase > length THEN <<>>
    ELSE LET found == FindAt(check_words, min_words_in_phrase, 1)
         IN  IF found # <<>> THEN found
             ELSE FindRepeatedShortest(check_words, length, min_words_in_phrase + 1)

\* lines 389-399, the for loop from this length down to min_words_in_phrase;
\* None and the empty list are both false at line 398
RECURSIVE FindRepeated(_, _, _)
FindRepeated(check_words, length, min_words_in_phrase) ==
    IF length < min_words_in_phrase THEN <<>>
    ELSE LET found == FindAt(check_words, length, 1)
         IN  IF found # <<>> THEN found
             ELSE FindRepeated(check_words, length - 1, min_words_in_phrase)

\* lines 383-386 and the search: the phrase found in the first
\* max_words_to_check words
RepeatedPhrase(words, min_words_in_phrase, max_words_to_check) ==
    LET check_words == SubSeq(words, 1, IF Len(words) < max_words_to_check
                                        THEN Len(words) ELSE max_words_to_check)
        max_len == Len(check_words) \div 2
    IN  FindRepeated(check_words, max_len, min_words_in_phrase)

\* lines 404-414, from index i (counted from 1) on: the words kept
RECURSIVE CleanedWords(_, _, _)
CleanedWords(words, phrase, i) ==
    IF i - 1 > Len(words) - Len(phrase) THEN SubSeq(words, i, Len(words))
    ELSE IF SubSeq(words, i, i + Len(phrase) - 1) = phrase
    THEN CleanedWords(words, phrase, i + Len(phrase))
    ELSE <<words[i]>> \o CleanedWords(words, phrase, i + 1)

\* lines 402-416: what is returned for the phrase found
RemoveRepeated(text, phrase) ==
    IF phrase # <<>> THEN Join(<<" ">>, CleanedWords(Split(text), phrase, 1))
    ELSE text

\* the most words of a text tried
MaxWords == 6

\* the words of the texts tried
PhraseWords == {<<"A">>, <<"B">>}

RECURSIVE WordsOfLen(_)
WordsOfLen(n) ==
    IF n = 0 THEN {<<>>}
    ELSE {Append(w, x) : w \in WordsOfLen(n - 1), x \in PhraseWords}

\* the text of the spec's example, and what the spec says is returned for it
ExampleText == <<"A"," ","B"," ","A"," ","B"," ","r","e","s","t"," ","o","f"," ","a","r","t","i","c","l","e">>

ExampleResult == <<"r","e","s","t"," ","o","f"," ","a","r","t","i","c","l","e">>

\* the texts tried: up to MaxWords words joined by one space or by two, and
\* the example
PhraseTexts ==
    {Join(sep, w) : w \in UNION {WordsOfLen(n) : n \in 0..MaxWords},
                    sep \in {<<" ">>, <<" ", " ">>}}
        \cup {ExampleText}

\* min_words_in_phrase: the example's, the default, and that of main.py:170
MinWordsTried == {1, 2, 3}

\* max_words_to_check: the default, and one that cuts the texts short
MaxCheckTried == {4, 200}

InitPhrase ==
    /\ bstate = "new"
    /\ contexts = 0
    /\ nclosed = 0
    /\ sem = MaxConcurrentTasks
    /\ cpc = [c \in Calls |-> "idle"]
    /\ carg = [c \in Calls |-> NoArg]
    /\ cpage = [c \in Calls |-> "none"]
    /\ purl = [c \in Calls |-> "blank"]
    /\ cres = [c \in Calls |-> "pending"]
    /\ clate = [c \in Calls |-> FALSE]
    /\ cevent = [c \in Calls |-> "none"]
    /\ endSeen = {}
    /\ visited_urls = {}
    /\ fpc = [t \in Tasks |-> "idle"]
    /\ search_result = [t \in Tasks |-> <<>>]
    /\ fresults = [t \in Tasks |-> <<>>]
    /\ bundle = NoBundle
    /\ configured = FALSE
    /\ allowed_metrics = <<>>
    /\ response = NoResponse
    /\ parsed = NoFacts
    /\ metric_data = <<>>
    /\ csv_saved = FALSE
    /\ csv_table = {}
    /\ xskip = <<>>
    /\ xpage = <<>>
    /\ xblocks = <<>>
    /\ xpath = "none"
    /\ xout = PyNone
    /\ rpc = "idle"
    /\ rcaller = "none"
    /\ rurl = <<>>
    /\ rpage_url = AboutBlank
    /\ rnav = "none"
    /\ rfail = "none"
    /\ rret = Pending
    /\ ktext = <<>>
    /\ metric_mapping = <<>>
    /\ min_score = 0
    /\ kpc = "idle"
    /\ kadded = <<>>
    /\ kprev = FALSE
    /\ kres = FALSE
    /\ ctext = <<>>
    /\ cpass = 0
    /\ conce = <<>>
    /\ ctwice = <<>>
    /\ ppc = "idle"
    /\ ptext = <<>>
    /\ pmin = 0
    /\ pcheck = 0
    /\ repeated_phrase = <<>>
    /\ pout = <<>>
    /\ task_list = <<>>
    /\ save_points = <<>>
    /\ prompts = {}
    /\ network = FALSE
    /\ mpc = "startup"
    /\ mcountry = 1
    /\ google_news_articles = <<>>
    /\ has_text = {}
    /\ passes = {}
    /\ accessed_articles = <<>>
    /\ filtered_articles = <<>>
    /\ parsed_articles = <<>>
    /\ reported = <<>>
    /\ merror = "none"
    /\ apc = "idle"
    /\ scraped = PyNone
    /\ amin = 0
    /\ full_text = <<>>
    /\ aresponse = NoResponse
    /\ flattened_data = <<>>
    /\ atable = {}
    /\ tpc = "idle"
    /\ tdata = <<>>
    /\ tshuffled = <<>>
    /\ table = {}
    /\ shuffled_table = {}

\* remove_repeated_phrase_from_text(text, min_words_in_phrase,
\* max_words_to_check) is called
PhraseCall ==
    /\ ppc = "idle"
    /\ \E text \in PhraseTexts, m \in MinWordsTried, k \in MaxCheckTried :
          /\ ptext' = text
          /\ pmin' = m
          /\ pcheck' = k
    /\ ppc' = "called"
    /\ UNCHANGED <<repeated_phrase, pout>>
    /\ UNCHANGED othersOfPhrase

\* lines 379-416: the search, the removal, the return
PhraseReturn ==
    /\ ppc = "called"
    /\ LET found == RepeatedPhrase(Split(ptext), pmin, pcheck)
       IN  /\ repeated_phrase' = found
           /\ pout' = RemoveRepeated(ptext, found)
    /\ ppc' = "done"
    /\ UNCHANGED <<ptext, pmin, pcheck>>
    /\ UNCHANGED othersOfPhrase

NextPhrase ==
    \/ PhraseCall
    \/ PhraseReturn

SpecPhrase == InitPhrase /\ [][NextPhrase]_vars

\* the first max_words_to_check words of the text
CheckedWords ==
    LET words == Split(ptext)
    IN  SubSeq(words, 1, IF Len(words) < pcheck THEN Len(words) ELSE pcheck)

\* the places <<length, i>> where a run of at least min_words_in_phrase
\* words is followed by an equal run, inside the checked words
DoubledRuns ==
    {p \in (pmin..Len(CheckedWords)) \X (1..Len(CheckedWords)) :
        /\ p[2] - 1 + 2 * p[1] <= Len(CheckedWords)
        /\ SubSeq(CheckedWords, p[2], p[2] + p[1] - 1)
              = SubSeq(CheckedWords, p[2] + p[1], p[2] + 2 * p[1] - 1)}

\* the longest of them and, among the longest, the leftmost
BestRun ==
    CHOOSE p \in DoubledRuns :
        \A q \in DoubledRuns : q[1] < p[1] \/ (q[1] = p[1] /\ p[2] <= q[2])

\* C17: the phrase selected is the longest doubled run of at least
\* min_words_in_phrase words inside the first max_words_to_check words, the
\* leftmost among the longest; with no doubled run the text is returned
\* unchanged.  For the example text with min_words_in_phrase = 1 the phrase
\* is "A B" and the result "rest of article".
C17_LongestLeftmost ==
    ppc = "done" =>
        /\ IF DoubledRuns = {}
           THEN repeated_phrase = <<>> /\ pout = ptext
           ELSE repeated_phrase =
                    SubSeq(CheckedWords, BestRun[2], BestRun[2] + BestRun[1] - 1)
        /\ ptext = ExampleText /\ pmin = 1 /\ pcheck = 200 =>
              /\ repeated_phrase = <<<<"A">>, <<"B">>>>
              /\ pout = ExampleResult

\* the example has been run
C17_Witness ==
    /\ ppc = "done"
    /\ ptext = ExampleText /\ pmin = 1 /\ pcheck = 200
    /\ pout = ExampleResult

\* phrase occurs in words as a contiguous run
HasRun(words, phrase) ==
    \E i \in 1..(Len(words) - Len(phrase) + 1) :
        SubSeq(words, i, i + Len(phrase) - 1) = phrase

\* C18: when a doubled phrase was detected, the returned text holds no
\* contiguous run of words equal to it.
C18_NoOccurrenceLeft ==
    ppc = "done" /\ repeated_phrase # <<>> => ~HasRun(Split(pout), repeated_phrase)

(***************************************************************************)
(* main.py, lines 75-300: the run over the countries with every task of    *)
(* the task list, seen through which articles pass each step.              *)
(***************************************************************************)
\* the countries of country_data
NCountries == 2

\* the most articles a country's searches return
MaxArticles == 3

\* config "max browser tabs": batch_size of scrape_articles_parallel
BrowserTabs == 2

\* config "max parallel filter tabs": batch_size of preprocess_articles
ParallelFilterTabs == 2

\* the batch a 'for i in range(0, len(articles), batch_size)' loop leaves
\* bound when it ends: the last one
LastBatch(articles, batch_size) ==
    SubSeq(articles, ((Len(articles) - 1) \div batch_size) * batch_size + 1,
           Len(articles))

\* the articles of the list that are in the set, in the list's order
Kept(articles, keep) == SelectSeq(articles, LAMBDA a : a \in keep)

Members(articles) == {articles[i] : i \in 1..Len(articles)}

\* the run ends with an exception nothing catches
Abort(error) ==
    /\ mpc' = "aborted"
    /\ merror' = error

InitMain ==
    /\ bstate = "new"
    /\ contexts = 0
    /\ nclosed = 0
    /\ sem = MaxConcurrentTasks
    /\ cpc = [c \in Calls |-> "idle"]
    /\ carg = [c \in Calls |-> NoArg]
    /\ cpage = [c \in Calls |-> "none"]
    /\ purl = [c \in Calls |-> "blank"]
    /\ cres = [c \in Calls |-> "pending"]
    /\ clate = [c \in Calls |-> FALSE]
    /\ cevent = [c \in Calls |-> "none"]
    /\ endSeen = {}
    /\ visited_urls = {}
    /\ fpc = [t \in Tasks |-> "idle"]
    /\ search_result = [t \in Tasks |-> <<>>]
    /\ fresults = [t \in Tasks |-> <<>>]
    /\ bundle = NoBundle
    /\ configured = FALSE
    /\ allowed_metrics = <<>>
    /\ response = NoResponse
    /\ parsed = NoFacts
    /\ metric_data = <<>>
    /\ csv_saved = FALSE
    /\ csv_table = {}
    /\ xskip = <<>>
    /\ xpage = <<>>
    /\ xblocks = <<>>
    /\ xpath = "none"
    /\ xout = PyNone
    /\ rpc = "idle"
    /\ rcaller = "none"
    /\ rurl = <<>>
    /\ rpage_url = AboutBlank
    /\ rnav = "none"
    /\ rfail = "none"
    /\ rret = Pending
    /\ ktext = <<>>
    /\ metric_mapping = <<>>
    /\ min_score = 0
    /\ kpc = "idle"
    /\ kadded = <<>>
    /\ kprev = FALSE
    /\ kres = FALSE
    /\ ctext = <<>>
    /\ cpass = 0
    /\ conce = <<>>
    /\ ctwice = <<>>
    /\ ppc = "idle"
    /\ ptext = <<>>
    /\ pmin = 0
    /\ pcheck = 0
    /\ repeated_phrase = <<>>
    /\ pout = <<>>
    /\ task_list = <<>>
    /\ save_points = <<>>
    /\ prompts = {}
    /\ network = FALSE
    /\ mpc = "startup"
    /\ mcountry = 1
    /\ google_news_articles = <<>>
    /\ has_text = {}
    /\ passes = {}
    /\ accessed_articles = <<>>
    /\ filtered_articles = <<>>
    /\ parsed_articles = <<>>
    /\ reported = <<>>
    /\ merror = "none"
    /\ apc = "idle"
    /\ scraped = PyNone
    /\ amin = 0
    /\ full_text = <<>>
    /\ aresponse = NoResponse
    /\ flattened_data = <<>>
    /\ atable = {}
    /\ tpc = "idle"
    /\ tdata = <<>>
    /\ tshuffled = <<>>
    /\ table = {}
    /\ shuffled_table = {}

\* the task list and the save points of main.py lines 36-47
DefaultTasks ==
    <<"gnews fetch", "web scrape", "fuzzy filter", "openai classify", "save results">>

DefaultSavePoints == <<"gnews fetch", "web scrape", "openai classify">>

\* the templates lines 54-56 read from prompts.json
RequiredPrompts == {"news_instruction", "format_instruction", "output_format"}

\* the configurations tried: the default lists or empty ones, and
\* prompts.json with every template or without one
TaskLists == {<<>>, DefaultTasks}

SavePointLists == {<<>>, DefaultSavePoints}

PromptFiles == {RequiredPrompts} \cup {RequiredPrompts \ {t} : t \in RequiredPrompts}

\* a start-up that does not look at the save points
ConfigErrorTasksOnly(tasks, points, templates) ==
    IF ~(RequiredPrompts \subseteq templates) THEN "KeyError"
    ELSE IF tasks = <<>> THEN "ValueError"
    ELSE "none"

\* lines 53-73: reading a missing template raises KeyError (lines 54-56),
\* an empty task list or save-point list raises ValueError (lines 70-73)
ConfigError(tasks, points, templates) ==
    IF ~(RequiredPrompts \subseteq templates) THEN "KeyError"
    ELSE IF tasks = <<>> THEN "ValueError"
    ELSE IF points = <<>> THEN "ValueError"
    ELSE "none"

\* lines 17-73: the configuration files are read and checked; the loop over
\* the countries starts when nothing was raised
LoadConfig ==
    /\ mpc = "startup"
    /\ \E tasks \in TaskLists, points \in SavePointLists, templates \in PromptFiles :
          /\ task_list' = tasks
          /\ save_points' = points
          /\ prompts' = templates
          /\ merror' = ConfigError(tasks, points, templates)
          /\ mpc' = IF ConfigError(tasks, points, templates) = "none"
                    THEN "fetch" ELSE "misconfigured"
    /\ UNCHANGED <<network, mcountry, google_news_articles, has_text, passes,
                   accessed_articles, filtered_articles, parsed_articles, reported>>
    /\ UNCHANGED othersOfMain

\* lines 76-102: the searches of the country are made and run; they return
\* any number of new articles, also none.  Which of their pages give a text
\* long enough, and which texts hold a keyword, is a fact about the
\* articles: get_page_text and the prefilter find it out when they are asked.
FetchArticles ==
    /\ mpc = "fetch"
    /\ \E n \in 0..MaxArticles :
          /\ google_news_articles' = [i \in 1..n |-> i] \o <<>>
          /\ \E good \in SUBSET (1..n) : \E liked \in SUBSET good :
                 has_text' = good /\ passes' = liked
    /\ mpc' = "scrape"
    /\ UNCHANGED <<mcountry, accessed_articles, filtered_articles, parsed_articles,
                   reported, merror>>
    /\ network' = TRUE
    /\ UNCHANGED <<task_list, save_points, prompts>>
    /\ UNCHANGED othersOfMain

\* lines 116-194, scrape_articles_parallel: an empty list raises ValueError
\* (line 137).  The gather of line 163 and the loop of line 166 are after
\* the batch loop: they see the last batch.
ScrapeArticles ==
    /\ mpc = "scrape"
    /\ IF google_news_articles = <<>>
       THEN /\ Abort("ValueError")
            /\ UNCHANGED accessed_articles
       ELSE /\ accessed_articles' =
                   Kept(LastBatch(google_news_articles, BrowserTabs), has_text)
            /\ mpc' = "filter"
            /\ UNCHANGED merror
    /\ UNCHANGED <<mcountry, google_news_articles, has_text, passes,
                   filtered_articles, parsed_articles, reported>>
    /\ network' = (network \/ google_news_articles # <<>>)
    /\ UNCHANGED <<task_list, save_points, prompts>>
    /\ UNCHANGED othersOfMain

\* lines 208-259, preprocess_articles: the loop of line 239 is after the
\* batch loop of line 234 and reads its variable batch, which is unbound
\* when accessed_articles is empty.
PreprocessArticles ==
    /\ mpc = "filter"
    /\ IF accessed_articles = <<>>
       THEN /\ Abort("UnboundLocalError")
            /\ UNCHANGED filtered_articles
       ELSE /\ filtered_articles' =
                   Kept(LastBatch(accessed_articles, ParallelFilterTabs), passes)
            /\ mpc' = "parse"
            /\ UNCHANGED merror
    /\ UNCHANGED <<mcountry, google_news_articles, has_text, passes,
                   accessed_articles, parsed_articles, reported>>
    /\ UNCHANGED network
    /\ UNCHANGED <<task_list, save_points, prompts>>
    /\ UNCHANGED othersOfMain

\* lines 266-282, parse_articles: every batch is awaited inside the loop;
\* the model's response may yield no fact for any article
ParseArticles ==
    /\ mpc = "parse"
    /\ \E keep \in SUBSET Members(filtered_articles) :
          parsed_articles' = Kept(filtered_articles, keep)
    /\ mpc' = "save"
    /\ UNCHANGED <<mcountry, google_news_articles, has_text, passes,
                   accessed_articles, filtered_articles, reported, merror>>
    /\ network' = (network \/ filtered_articles # <<>>)
    /\ UNCHANGED <<task_list, save_points, prompts>>
    /\ UNCHANGED othersOfMain

\* lines 287-300: the facts are flattened and saved, and the loop goes on
\* to the next country or the run ends with "all done!"
SaveResults ==
    /\ mpc = "save"
    /\ reported' = Append(reported, parsed_articles)
    /\ IF mcountry < NCountries
       THEN mcountry' = mcountry + 1 /\ mpc' = "fetch"
       ELSE mcountry' = mcountry /\ mpc' = "done"
    /\ google_news_articles' = <<>>
    /\ has_text' = {}
    /\ passes' = {}
    /\ accessed_articles' = <<>>
    /\ filtered_articles' = <<>>
    /\ parsed_articles' = <<>>
    /\ UNCHANGED merror
    /\ UNCHANGED network
    /\ UNCHANGED <<task_list, save_points, prompts>>
    /\ UNCHANGED othersOfMain

NextMain ==
    \/ LoadConfig
    \/ FetchArticles
    \/ ScrapeArticles
    \/ PreprocessArticles
    \/ ParseArticles
    \/ SaveResults

SpecMain == InitMain /\ [][NextMain]_vars

\* C19: a run whose only failures are per-article ones (a scrape returning
\* None, a prefilter rejection, a response without a fact), or a search
\* that returns no article, is never ended by an exception, and when it
\* ends every country's results have been saved.
C19_RunCompletes ==
    /\ mpc # "aborted"
    /\ mpc = "done" => Len(reported) = NCountries

\* C20: when one search call of get_bundle_search_parallel fails, the
\* failure stays with that call: get_bundle_search_parallel does not raise,
\* and what it returns holds the articles of every query that succeeded.
C20_SearchFailureIsolated ==
    /\ bundle.kind # "raised"
    /\ bundle.kind = "list" =>
          \A t \in Tasks : \A i \in 1..Len(fresults[t]) :
              CountIn(bundle.articles, fresults[t][i]) > 0

(***************************************************************************)
(* One article from the scraped text to the flattened table: main.py       *)
(* lines 166-174, 239-252, 274-279 and 288-298, with chunk_and_clean_text, *)
(* trim_text and save_to_csv_flat of utils.py.                             *)
(***************************************************************************)
\* len(re.findall(r'[^a-zA-Z0-9\s]', chunk))
NonTextCount(chunk) ==
    Cardinality({i \in 1..Len(chunk) : ~IsAlnum(chunk[i]) /\ ~IsWs(chunk[i])})

\* chunk_and_clean_text, lines 429-443: the chunks of chunk_size characters
\* whose share of non-text characters is at most max_nontext_ratio, given
\* in tenths, stripped and joined by a space
ChunkAndCleanText(text, chunk_size, max_nontext_tenths) ==
    LET t == Strip(NormalizeNewlines(text))
        starts == SelectSeq(Positions(t), LAMBDA i : (i - 1) % chunk_size = 0)
        chunk(i) == SubSeq(t, i, IF i + chunk_size - 1 < Len(t)
                                 THEN i + chunk_size - 1 ELSE Len(t))
        good == SelectSeq(starts,
                          LAMBDA i : 10 * NonTextCount(chunk(i))
                                         <= max_nontext_tenths * Len(chunk(i)))
    IN  Join(<<" ">>, [k \in 1..Len(good) |-> Strip(chunk(good[k]))])

\* " ".join(s) for a string s: str.join iterates its argument, and a string
\* yields its characters
JoinOverString(s) == Join(<<" ">>, [i \in 1..Len(s) |-> <<s[i]>>])

\* lines 170-173: what becomes full_text of an accepted article
FullText(text) ==
    LET lowered == Lower(text)
        unrepeated == RemoveRepeated(lowered, RepeatedPhrase(Split(lowered), 3, 200))
        clean_chunks == CleanText(ChunkAndCleanText(unrepeated, 50, 3))
    IN  JoinOverString(clean_chunks)

\* trim_text, lines 362-363
TrimText(text, words_start, words_end) ==
    LET words == Split(text)
    IN  Join(<<" ">>, SubSeq(words, words_start + 1,
                             IF Len(words) < words_end THEN Len(words) ELSE words_end))

\* the text of the spec's end-to-end scenario, the same followed by a
\* second sentence, and further down a page of symbols and a short text
ScenarioText ==
    <<"S","e","v","e","r","e"," ","f","l","o","o","d","s"," ","d","i","s","p",
      "l","a","c","e","d"," ","t","h","o","u","s","a","n","d","s"," ","i","n",
      " ","M","a","r","c","h"," ","2","0","2","1",".">>

LongerText ==
    ScenarioText \o <<" ","R","o","a","d","s"," ","w","e","r","e"," ","c","l","o","s","e","d",".">>

\* a page that repeats its menu, and one with tabs, line ends and wide gaps
MenuText ==
    <<"M","e","n","u"," ","H","o","m","e"," ","N","e","w","s"," ","M","e","n",
      "u"," ","H","o","m","e"," ","N","e","w","s"," ","F","l","o","o","d"," ",
      "w","a","t","e","r","s"," ","r","o","s","e"," ","i","n"," ","K","e","n",
      "y","a"," ","a","f","t","e","r"," ","h","e","a","v","y"," ","r","a","i",
      "n"," ","i","n"," ","M","a","r","c","h",".">>

GappyText ==
    <<"F","l","o","o","d","\t","w","a","r","n","i","n","g",":","\r","\n","r",
      "i","v","e","r","s"," "," ","r","i","s","e"," ",";"," ","t","o","w","n",
      "s"," ","a","r","e"," ","c","u","t"," ","o","f","f"," ","a","n","d"," ",
      "t","h","o","u","s","a","n","d","s"," ","m","o","r","e"," ","f","l","e",
      "e"," ","t","h","e","i","r"," ","h","o","m","e","s">>

ScrapedTexts ==
    {ScenarioText, LongerText, MenuText, GappyText, Rep(<<"#","!">>, 30),
     <<"F","l","o","o","d","s">>}

\* min_text_length: config 'min page text length'
MinTextLengths == {1, 40, 60}

\* the scenario's keyword map {"disaster": ["flood"]}
Disaster == <<"d","i","s","a","s","t","e","r">>

Kenya == <<"K","e","n","y","a">>

ScenarioKeywords == <<MetricEntry(Disaster, <<KwFlood>>)>>

\* main.py line 35 and 215: int(fuzzy_match_threshold * 100) with the
\* default threshold 0.5
FuzzyMinScore == 50

\* the metric titles, the accepted countries and the years of io.json
ScenarioTitles == <<Disaster>>

AcceptedCountries == <<Kenya, <<"M","a","l","i">>>>

\* the scenario's model response, one without a fact for a known country,
\* and the model's refusal
ScenarioDoc == JList(<<JDict(JStr(Kenya), JStr(Disaster), JList(<<GoodDate>>))>>)

ArticleDocs ==
    {ScenarioDoc,
     JList(<<JDict(JStr(<<"P","e","r","u">>), JStr(Disaster), JList(<<GoodDate, Month13>>))>>),
     JList(<<>>)}

ArticleResponses ==
    {[isstr |-> TRUE, text |-> Wrapped(st, d), doc |-> d] :
         st \in Styles, d \in ArticleDocs}

ScenarioResponse == [isstr |-> TRUE, text |-> Wrapped("json", ScenarioDoc), doc |-> ScenarioDoc]

InitArticle ==
    /\ bstate = "new"
    /\ contexts = 0
    /\ nclosed = 0
    /\ sem = MaxConcurrentTasks
    /\ cpc = [c \in Calls |-> "idle"]
    /\ carg = [c \in Calls |-> NoArg]
    /\ cpage = [c \in Calls |-> "none"]
    /\ purl = [c \in Calls |-> "blank"]
    /\ cres = [c \in Calls |-> "pending"]
    /\ clate = [c \in Calls |-> FALSE]
    /\ cevent = [c \in Calls |-> "none"]
    /\ endSeen = {}
    /\ visited_urls = {}
    /\ fpc = [t \in Tasks |-> "idle"]
    /\ search_result = [t \in Tasks |-> <<>>]
    /\ fresults = [t \in Tasks |-> <<>>]
    /\ bundle = NoBundle
    /\ configured = FALSE
    /\ allowed_metrics = <<>>
    /\ response = NoResponse
    /\ parsed = NoFacts
    /\ metric_data = <<>>
    /\ csv_saved = FALSE
    /\ csv_table = {}
    /\ xskip = <<>>
    /\ xpage = <<>>
    /\ xblocks = <<>>
    /\ xpath = "none"
    /\ xout = PyNone
    /\ rpc = "idle"
    /\ rcaller = "none"
    /\ rurl = <<>>
    /\ rpage_url = AboutBlank
    /\ rnav = "none"
    /\ rfail = "none"
    /\ rret = Pending
    /\ ktext = <<>>
    /\ metric_mapping = <<>>
    /\ min_score = 0
    /\ kpc = "idle"
    /\ kadded = <<>>
    /\ kprev = FALSE
    /\ kres = FALSE
    /\ ctext = <<>>
    /\ cpass = 0
    /\ conce = <<>>
    /\ ctwice = <<>>
    /\ ppc = "idle"
    /\ ptext = <<>>
    /\ pmin = 0
    /\ pcheck = 0
    /\ repeated_phrase = <<>>
    /\ pout = <<>>
    /\ task_list = <<>>
    /\ save_points = <<>>
    /\ prompts = {}
    /\ network = FALSE
    /\ mpc = "startup"
    /\ mcountry = 1
    /\ google_news_articles = <<>>
    /\ has_text = {}
    /\ passes = {}
    /\ accessed_articles = <<>>
    /\ filtered_articles = <<>>
    /\ parsed_articles = <<>>
    /\ reported = <<>>
    /\ merror = "none"
    /\ apc = "idle"
    /\ scraped = PyNone
    /\ amin = 0
    /\ full_text = <<>>
    /\ aresponse = NoResponse
    /\ flattened_data = <<>>
    /\ atable = {}
    /\ tpc = "idle"
    /\ tdata = <<>>
    /\ tshuffled = <<>>
    /\ table = {}
    /\ shuffled_table = {}

\* main.py lines 166-174 for one article of the batch: the text is kept
\* when get_page_text returned one of at least min_text_length characters
ScrapeArticle ==
    /\ apc = "idle"
    /\ \E result \in {PyNone} \cup {PyStr(t) : t \in ScrapedTexts}, m \in MinTextLengths :
          /\ scraped' = result
          /\ amin' = m
          /\ IF result.kind = "text" /\ result.text # <<>> /\ Len(result.text) >= m
             THEN full_text' = FullText(result.text) /\ apc' = "accessed"
             ELSE full_text' = <<>> /\ apc' = "dropped"
    /\ UNCHANGED <<aresponse, flattened_data, atable>>
    /\ UNCHANGED othersOfArticle

\* main.py lines 239-252 for one article: full_text is trimmed, and the
\* trimmed text is given to the keyword prefilter
PrefilterArticle ==
    /\ apc = "accessed"
    /\ LET trimmed_text == TrimText(full_text, 50, 1500)
       IN  /\ full_text' = trimmed_text
           /\ apc' = IF PreprocessSync(trimmed_text, ScenarioKeywords, FuzzyMinScore)
                     THEN "filtered" ELSE "rejected"
    /\ UNCHANGED <<scraped, amin, aresponse, flattened_data, atable>>
    /\ UNCHANGED othersOfArticle

\* configure_parsing, lines 58-61, on a fresh parser: self.allowed_metrics
AllowedMetrics(titles) == [i \in 1..Len(titles) |-> Lower(titles[i])] \o <<>>

\* main.py lines 267-279 and 288-291 for one article: the parser is made
\* and configured with the metric titles, the model's response is
\* formatted, and the facts of a non-empty list are flattened.  A TypeError
\* of format_response leaves the run as "raised".
ParseArticle ==
    /\ apc = "filtered"
    /\ \E r \in ArticleResponses :
          LET facts == FormatResponseOf(r, AllowedMetrics(ScenarioTitles))
          IN  /\ aresponse' = r
              /\ flattened_data' = facts.facts
              /\ apc' = CASE facts.kind = "list" -> "parsed"
                          [] facts.kind = "none" -> "unparsed"
                          [] OTHER -> "raised"
    /\ UNCHANGED <<scraped, amin, full_text, atable>>
    /\ UNCHANGED othersOfArticle

\* main.py lines 296-298: the flattened facts are saved.  An article
\* rejected by the prefilter or left without a fact adds none.
SaveArticle ==
    /\ apc \in {"rejected", "parsed", "unparsed"}
    /\ atable' = SaveToCsvFlat(flattened_data, ScenarioTitles, AcceptedCountries, Years)
    /\ apc' = "saved"
    /\ UNCHANGED <<scraped, amin, full_text, aresponse, flattened_data>>
    /\ UNCHANGED othersOfArticle

NextArticle ==
    \/ ScrapeArticle
    \/ PrefilterArticle
    \/ ParseArticle
    \/ SaveArticle

SpecArticle == InitArticle /\ [][NextArticle]_vars

\* the fact and the cell of the scenario
ScenarioFact == [country |-> Kenya, metric |-> Disaster, dates |-> <<GoodDate.s>>]

ScenarioCell == <<GoodDate.s, Kenya, Disaster>>

\* C21: in the end-to-end scenario (the page text of the scenario, accepted
\* by the length test, the keyword map {"disaster": ["flood"]} and the model
\* response with the one fact) the article is kept by the scrape and by the
\* prefilter, exactly one fact is yielded, and the table saved has a 1 in
\* the cell of Kenya, 03-2021 and disaster and nowhere else.
C21_EndToEnd ==
    scraped = PyStr(ScenarioText) /\ amin <= Len(ScenarioText) =>
        /\ apc \notin {"dropped", "rejected"}
        /\ aresponse = ScenarioResponse => flattened_data = <<ScenarioFact>>
        /\ apc = "saved" /\ aresponse = ScenarioResponse => atable = {ScenarioCell}

\* C30: the full_text stored for an accepted article is clean_text of
\* chunk_and_clean_text of the lower-cased text without its repeated
\* phrase: nothing is added or removed after clean_text.
C30_FullTextIsCleaned ==
    apc = "accessed" =>
        LET lowered == Lower(scraped.text)
            unrepeated == RemoveRepeated(lowered, RepeatedPhrase(Split(lowered), 3, 200))
        IN  full_text = CleanText(ChunkAndCleanText(unrepeated, 50, 3))

\* C22: on the selector path no element whose text holds a configured
\* skip-word, in whatever letter case the text or the configured word is
\* written, is kept as a text block.
C22_SkipWordsAnyCase ==
    xpath = "selector" =>
        \A i \in 1..Len(xblocks) : \A k \in 1..Len(xskip) :
            ~Contains(Lower(xblocks[i]), Lower(xskip[k]))

\* C27: every text block of the text get_page_text returns is free of the
\* configured skip-words, on the selector path and on the raw-markup
\* fallback, and a page whose every text holds a skip-word yields None.
C27_BlocksFreeOfSkipWords ==
    xout.kind # "pending" =>
        /\ xout.kind = "text" =>
              \A i \in 1..Len(xblocks) : \A k \in 1..Len(xskip) :
                  ~Contains(Lower(xblocks[i]), xskip[k])
        /\ PageBlocked(xpage, xskip) => xout = PyNone

\* C23: whatever the batch size, scrape_articles_parallel returns exactly
\* the articles of its list whose page gives a text long enough, and
\* preprocess_articles exactly the scraped articles the prefilter accepts.
C23_EveryBatchProcessed ==
    /\ mpc \in {"filter", "parse", "save"} =>
          accessed_articles = Kept(google_news_articles, has_text)
    /\ mpc \in {"parse", "save"} =>
          filtered_articles = Kept(accessed_articles, passes)

\* C24: when the task list or the save-point list is empty or a template
\* is missing, the run has ended with the configuration error and no
\* search, browser start or model call was issued before it.
C24_ConfigErrorBeforeNetwork ==
    (mpc # "startup"
        /\ (task_list = <<>> \/ save_points = <<>> \/ prompts # RequiredPrompts))
    => (mpc = "misconfigured" /\ merror \in {"KeyError", "ValueError"} /\ ~network)

\* a run ended by an empty save-point list under a full task list
C24_Witness ==
    /\ mpc = "misconfigured"
    /\ task_list = DefaultTasks
    /\ save_points = <<>>
    /\ prompts = RequiredPrompts
    /\ merror = "ValueError"
    /\ ~network

(***************************************************************************)
(* save_to_csv_flat, utils.py lines 199-280, on lists of facts.            *)
(***************************************************************************)
\* the most facts of a list
MaxFacts == 3

\* the metric columns of the table
TableMetrics == <<Disaster, <<"r","i","o","t">>>>

April == <<"0","4","-","2","0","2","1">>

\* the facts tried: two of one cell's row, one with a month 13, one of a
\* country that is not accepted, one of a metric that is no column, one of a
\* year that has no rows
Facts ==
    { [country |-> Kenya, metric |-> Disaster, dates |-> <<GoodDate.s>>],
      [country |-> Kenya, metric |-> Disaster, dates |-> <<April, GoodDate.s>>],
      [country |-> AcceptedCountries[2], metric |-> TableMetrics[2],
       dates |-> <<GoodDate.s, Month13.s>>],
      [country |-> <<"P","e","r","u">>, metric |-> Disaster, dates |-> <<GoodDate.s>>],
      [country |-> Kenya, metric |-> War.s, dates |-> <<April>>],
      [country |-> AcceptedCountries[2], metric |-> Disaster,
       dates |-> <<<<"0","3","-","2","0","2","2">>>>] }

RECURSIVE FactLists(_)
FactLists(n) ==
    IF n = 0 THEN {<<>>}
    ELSE {Append(l, f) : l \in FactLists(n - 1), f \in Facts}

\* a list read in another order
Reverse(list) == [i \in 1..Len(list) |-> list[Len(list) + 1 - i]] \o <<>>

\* the facts in the order p, each with its dates reversed when flip holds
Reordered(data, p, flip) ==
    [i \in 1..Len(data) |->
        [data[p[i]] EXCEPT !.dates = IF flip THEN Reverse(@) ELSE @]] \o <<>>

InitTable ==
    /\ bstate = "new"
    /\ contexts = 0
    /\ nclosed = 0
    /\ sem = MaxConcurrentTasks
    /\ cpc = [c \in Calls |-> "idle"]
    /\ carg = [c \in Calls |-> NoArg]
    /\ cpage = [c \in Calls |-> "none"]
    /\ purl = [c \in Calls |-> "blank"]
    /\ cres = [c \in Calls |-> "pending"]
    /\ clate = [c \in Calls |-> FALSE]
    /\ cevent = [c \in Calls |-> "none"]
    /\ endSeen = {}
    /\ visited_urls = {}
    /\ fpc = [t \in Tasks |-> "idle"]
    /\ search_result = [t \in Tasks |-> <<>>]
    /\ fresults = [t \in Tasks |-> <<>>]
    /\ bundle = NoBundle
    /\ configured = FALSE
    /\ allowed_metrics = <<>>
    /\ response = NoResponse
    /\ parsed = NoFacts
    /\ metric_data = <<>>
    /\ csv_saved = FALSE
    /\ csv_table = {}
    /\ xskip = <<>>
    /\ xpage = <<>>
    /\ xblocks = <<>>
    /\ xpath = "none"
    /\ xout = PyNone
    /\ rpc = "idle"
    /\ rcaller = "none"
    /\ rurl = <<>>
    /\ rpage_url = AboutBlank
    /\ rnav = "none"
    /\ rfail = "none"
    /\ rret = Pending
    /\ ktext = <<>>
    /\ metric_mapping = <<>>
    /\ min_score = 0
    /\ kpc = "idle"
    /\ kadded = <<>>
    /\ kprev = FALSE
    /\ kres = FALSE
    /\ ctext = <<>>
    /\ cpass = 0
    /\ conce = <<>>
    /\ ctwice = <<>>
    /\ ppc = "idle"
    /\ ptext = <<>>
    /\ pmin = 0
    /\ pcheck = 0
    /\ repeated_phrase = <<>>
    /\ pout = <<>>
    /\ task_list = <<>>
    /\ save_points = <<>>
    /\ prompts = {}
    /\ network = FALSE
    /\ mpc = "startup"
    /\ mcountry = 1
    /\ google_news_articles = <<>>
    /\ has_text = {}
    /\ passes = {}
    /\ accessed_articles = <<>>
    /\ filtered_articles = <<>>
    /\ parsed_articles = <<>>
    /\ reported = <<>>
    /\ merror = "none"
    /\ apc = "idle"
    /\ scraped = PyNone
    /\ amin = 0
    /\ full_text = <<>>
    /\ aresponse = NoResponse
    /\ flattened_data = <<>>
    /\ atable = {}
    /\ tpc = "idle"
    /\ tdata = <<>>
    /\ tshuffled = <<>>
    /\ table = {}
    /\ shuffled_table = {}

\* save_to_csv_flat(data, metrics, countries, years) on a list of facts
SaveFlat ==
    /\ tpc = "idle"
    /\ \E n \in 0..MaxFacts : \E data \in FactLists(n) :
          /\ tdata' = data
          /\ table' = SaveToCsvFlat(data, TableMetrics, AcceptedCountries, Years)
    /\ tpc' = "saved"
    /\ UNCHANGED <<tshuffled, shuffled_table>>
    /\ UNCHANGED othersOfTable

\* the same call on the same facts, arriving in another order
SaveReordered ==
    /\ tpc = "saved"
    /\ \E p \in Permutations(1..Len(tdata)), flip \in BOOLEAN :
          /\ tshuffled' = Reordered(tdata, p, flip)
          /\ shuffled_table' = SaveToCsvFlat(Reordered(tdata, p, flip), TableMetrics,
                                             AcceptedCountries, Years)
    /\ tpc' = "resaved"
    /\ UNCHANGED <<tdata, table>>
    /\ UNCHANGED othersOfTable

NextTable ==
    \/ SaveFlat
    \/ SaveReordered

SpecTable == InitTable /\ [][NextTable]_vars

\* C25: the table save_to_csv_flat builds does not depend on the order in
\* which the facts arrive, nor on the order of the dates inside a fact.
C25_OrderIndependent ==
    tpc = "resaved" => shuffled_table = table

\* two facts that set different cells, saved in both orders
C25_Witness ==
    /\ tpc = "resaved"
    /\ Len(tdata) >= 2
    /\ tshuffled # tdata
    /\ Cardinality(table) >= 2
    /\ shuffled_table = table

\* C26: clean_text merges runs of single characters only: two words of two
\* or more characters with one space between them are still two words, the
\* same two, in what it returns.
C26_WordsStayApart ==
    cpass >= 1 /\ ctext \in WordPairs => Split(conce) = Split(ctext)

\* C28: with the parser configured with the metric titles and
\* save_to_csv_flat given the same titles, every fact format_response
\* returned whose country is in the country list and whose date lies in the
\* configured years has the cell of its date, its country and its metric's
\* column set to 1 in the table, however the titles are spelled.
C28_FactsReachTable ==
    csv_saved =>
        \A i \in 1..Len(parsed.facts) :
            LET f == parsed.facts[i]
            IN  \A k \in 1..Len(f.dates) :
                    InList(f.country, ParserCountries) /\ f.dates[k] \in AllMonths(Years) =>
                        \E cell \in csv_table :
                            /\ cell[1] = f.dates[k]
                            /\ cell[2] = f.country
                            /\ Lower(cell[3]) = f.metric

\* the outcomes of lines 99-116 for the elements of the response's list
ElementOutcomes ==
    IF response = NoResponse \/ response.doc.t # "list" THEN <<>>
    ELSE [i \in 1..Len(response.doc.items) |->
             EntryOutcome(response.doc.items[i], allowed_metrics)] \o <<>>

\* C29: a response is taken for the model's "nothing found" only when it
\* begins with "no": a response that, lower-cased and stripped, does not
\* begin with "no" and that parses to a list with a valid element (and with
\* no element that makes the loop raise) is not rejected, and every valid
\* element is among the facts returned.
C29_OnlyLeadingNo ==
    (/\ response # NoResponse
     /\ response.isstr
     /\ ~StartsWith(Strip(Lower(response.text)), <<"n", "o">>)
     /\ \A i \in 1..Len(ElementOutcomes) : ElementOutcomes[i].kind # "raise")
    => \A i \in 1..Len(ElementOutcomes) :
           ElementOutcomes[i].kind = "keep" =>
               parsed.kind = "list" /\ InList(ElementOutcomes[i].fact, parsed.facts)

=============================================================================
